---- MODULE Spec2Model ----
(***************************************************************************)
(* Monitor control over DDC/CI: discovery of physical monitor endpoints,   *)
(* ownership and release of their native handles, and the command-line     *)
(* commands that select one monitor and drive it.                          *)
(*                                                                         *)
(* One behaviour is one run of the program: the front end picks a command  *)
(* (cli.rs run), the command selects its monitor (get_monitor ->           *)
(* find_monitor / get_primary_monitor -> enumerate_monitors), issues its   *)
(* transport calls and returns, dropping the PhysicalMonitor it owns.      *)
(* The operating system (crate::native, not part of the sources at hand)   *)
(* is the environment: what it answers to each call is drawn when the      *)
(* call is made.                                                           *)
(*                                                                         *)
(* Rust values are written as follows: Option<T> is a sequence of length   *)
(* 0 (None) or 1 (Some), a String is a tuple of tokens, Result<T> is the   *)
(* record [ok, kind, detail] next to the variable that holds T.            *)
(***************************************************************************)
EXTENDS Integers, Sequences, FiniteSets, TLC

\* ------------------------------------------------------------------------
\* Bounds of the model
\* ------------------------------------------------------------------------

\* The most display outputs the OS reports in one enumeration.
MaxOutputs == 2

\* The most physical-monitor handles the OS hands out in one run.
MaxHandles == 3

\* ------------------------------------------------------------------------
\* Values
\* ------------------------------------------------------------------------

None == << >>

Some(x) == << x >>

\* HMONITOR values of the outputs the OS may report.
HMonitors == 1 .. MaxOutputs

\* HANDLE values of physical monitors.
Handles == 1 .. MaxHandles

\* PHYSICAL_MONITOR.description() values.
Descriptions == { <<"A">>, <<"B">> }

\* MONITORINFO.dwFlags values: bit 0 is MONITORINFOF_PRIMARY.
FlagValues == { 1, 2 }

\* format!("DISPLAY_{:p}", hmonitor): one name per output handle, none of
\* them a description.
device_name_of(hmonitor) == << "DISPLAY_", hmonitor >>

\* dwFlags & 1
BitAnd1(flags) == flags % 2

\* The device names a user may ask for.
AskedNames == { <<"A">>, device_name_of(1), <<"nonexistent">> }

\* The --device and --primary arguments a user may give: a device name or
\* none without --primary, and --primary with or without a device name.
CommandArgs ==
    { [device |-> d, primary |-> FALSE]
        : d \in { << >> } \cup { << n >> : n \in AskedNames } }
    \cup
    { [device |-> d, primary |-> TRUE] : d \in { << >>, << <<"A">> >> } }

Ok == [ok |-> TRUE, kind |-> "", detail |-> None]

Err(kind, detail) == [ok |-> FALSE, kind |-> kind, detail |-> detail]

VARIABLES
    pc,                 \* where the program is
    cmd,                \* the CLI command function that is running
    args,               \* its arguments [device, primary, color_only]
    call,               \* the monitor.rs function get_monitor dispatched to
    enumerator,         \* enumerate_monitors: enumerator.monitors
    oi,                 \* enumerate_monitors: position of the outer loop
    physical_monitors,  \* enumerate_monitors: endpoints of the current output
    pi,                 \* enumerate_monitors: position of the inner loop
    monitors,           \* the Vec<PhysicalMonitor> being built or returned
    iter,               \* find: what monitors.into_iter() still holds
    mon,                \* Option<PhysicalMonitor> a function returned
    vcp_mon,            \* Option<VcpMonitor> of the running command
    ret,                \* Result of the monitor.rs function that returned last
    exit,               \* Option<Result> of the command
    printed,            \* messages the command printed on stdout
    warnings,           \* number of "Warning: Failed to create monitor" lines
    released,           \* per handle, how often destroy_physical_monitor ran
    nextHandle,         \* the OS's next fresh physical-monitor handle
    reported,           \* per enumeration made: how many outputs the OS reported
    queried,            \* every get_physical_monitors call: [hmonitor, ok,
                        \* res]
    attempts,           \* every PhysicalMonitor::new call: [hmonitor, handle, ok]
    enumerated,         \* while the function that enumerated runs: the
                        \* PhysicalMonitors constructed, in order, each with
                        \* the dwFlags it read: [monitor, dwFlags]
    calls,              \* every transport call: [fn, handle, args, released,
                        \* result]
    op,                 \* library driven directly: Option [fn, args] of the
                        \* function of vcp.rs or monitor.rs that is called
    wire,               \* its transport calls: [fn, handle, args, reply]
    returned,           \* Option of what it returned
    firmware,           \* scan_vcp_features: the codes the monitor answers
    next_code,          \* scan_vcp_features: the code the loop takes next
    features,           \* scan_vcp_features: the Vec being filled
    objects,            \* two threads: the PhysicalMonitor and the VcpMonitor
                        \* each thread owns, [mon, vcp_mon]
    threads,            \* two threads: the method each is in and its locals,
                        \* [pc, fn, args, reply, returned], with the handle
                        \* its objects were constructed on and the value it
                        \* last set with success, [bound, written]
    transport           \* two threads: per handle, the monitor's value of the
                        \* feature, the threads whose calls carried the
                        \* handle and the last answer, [value, callers, last]

vars == << pc, cmd, args, call, enumerator, oi, physical_monitors, pi, monitors,
           iter, mon, vcp_mon, ret, exit, printed, warnings, released,
           nextHandle, reported, queried, attempts, enumerated, calls,
           op, wire, returned, firmware, next_code, features,
           objects, threads, transport >>

\* What only a direct call of the library touches.
lib_locals == << op, wire, returned, firmware, next_code, features >>

\* What only the two threads of the concurrent front end touch.
par_locals == << objects, threads, transport >>

\* The locals of enumerate_monitors.
enum_locals == << enumerator, oi, physical_monitors, pi >>

\* What only the commands' bodies touch.
cmd_locals == << cmd, vcp_mon, exit, printed, calls >>

\* What the selection of a monitor leaves alone.
os_state == << warnings, nextHandle, reported, queried, attempts >>

\* ------------------------------------------------------------------------
\* PhysicalMonitor: construction and release (monitor.rs)
\* ------------------------------------------------------------------------

\* Mutant of PhysicalMonitorNew: primary whenever any flag is set.
PhysicalMonitorNew_any_flag(hmonitor, physical_monitor, flags) ==
    [ handle        |-> physical_monitor.h_physical_monitor,
      device_name   |-> device_name_of(hmonitor),
      friendly_name |-> physical_monitor.description,
      is_primary    |-> flags # 0 ]

\* PhysicalMonitor::new after get_monitor_info answered with `flags`.
PhysicalMonitorNew(hmonitor, physical_monitor, flags) ==
    [ handle        |-> physical_monitor.h_physical_monitor,
      device_name   |-> device_name_of(hmonitor),
      friendly_name |-> physical_monitor.description,
      is_primary    |-> BitAnd1(flags) # 0 ]

\* native::destroy_physical_monitor(handle): the OS releases the handle.
destroy_physical_monitor(rel, handle) ==
    [rel EXCEPT ![handle] = @ + 1]

\* Mutant of Drop: PhysicalMonitor without its Drop impl.
Drop_missing(rel, m) == rel

\* impl Drop for PhysicalMonitor.
Drop(rel, m) == destroy_physical_monitor(rel, m.handle)

\* Dropping a Vec<PhysicalMonitor> or what is left of its IntoIter: every
\* element is dropped, front to back.
RECURSIVE DropAll(_, _)
DropAll(rel, ms) ==
    IF ms = << >> THEN rel
    ELSE DropAll(Drop(rel, Head(ms)), Tail(ms))

\* ------------------------------------------------------------------------
\* The operating system's answers (crate::native)
\* ------------------------------------------------------------------------

\* What a failing native call may report.
NativeErrorKinds == { "MonitorNotFound", "UnsupportedOperation" }

\* native::MonitorEnumerator::enumerate(): the outputs the OS reports, or
\* MonitorNotFound when it reports none.
MonitorEnumerator_enumerate ==
    { [res |-> Err("MonitorNotFound", None), monitors |-> << >>] }
    \cup
    { [res |-> Ok, monitors |-> [i \in 1 .. n |-> i]] : n \in 1 .. MaxOutputs }

\* native::get_physical_monitors(hmonitor): an error, or the endpoints of the
\* output, each with a handle no other endpoint has.
get_physical_monitors(hmonitor, next) ==
    { [res |-> Err(k, None), pms |-> << >>] : k \in NativeErrorKinds }
    \cup
    UNION { { [res |-> Ok,
               pms |-> [j \in 1 .. n |->
                          [h_physical_monitor |-> next + j - 1,
                           description        |-> d[j]]]]
              : d \in [1 .. n -> Descriptions] }
            : n \in 0 .. (MaxHandles - next + 1) }

\* native::get_monitor_info(hmonitor): an error, or the output's MONITORINFO.
get_monitor_info(hmonitor) ==
    { [ok |-> FALSE, dwFlags |-> 0] }
    \cup
    { [ok |-> TRUE, dwFlags |-> f] : f \in FlagValues }

\* ------------------------------------------------------------------------
\* Initial state
\* ------------------------------------------------------------------------

Init ==
    /\ pc = "run"
    /\ cmd = ""
    /\ args = None
    /\ call = None
    /\ enumerator = << >>
    /\ oi = 0
    /\ physical_monitors = << >>
    /\ pi = 0
    /\ monitors = << >>
    /\ iter = << >>
    /\ mon = None
    /\ vcp_mon = None
    /\ ret = None
    /\ exit = None
    /\ printed = << >>
    /\ warnings = 0
    /\ released = [h \in Handles |-> 0]
    /\ nextHandle = 1
    /\ reported = None
    /\ queried = << >>
    /\ attempts = << >>
    /\ enumerated = << >>
    /\ calls = << >>
    /\ op = None
    /\ wire = << >>
    /\ returned = None
    /\ firmware = { }
    /\ next_code = 0
    /\ features = << >>
    /\ objects = << >>
    /\ threads = << >>
    /\ transport = << >>

\* ------------------------------------------------------------------------
\* Command dispatch (cli.rs)
\* ------------------------------------------------------------------------

\* Mutant of get_monitor: a device name, when given, is looked at before
\* --primary.
get_monitor_device_first(device, primary) ==
    IF device # None
    THEN [fn |-> "find_monitor", name |-> device[1]]
    ELSE [fn |-> "get_primary_monitor", name |-> None]

\* get_monitor(device, primary): which monitor.rs function selects.
get_monitor(device, primary) ==
    IF primary
    THEN [fn |-> "get_primary_monitor", name |-> None]
    ELSE IF device # None
         THEN [fn |-> "find_monitor", name |-> device[1]]
         ELSE [fn |-> "get_primary_monitor", name |-> None]

\* Commands::List => list_monitors(json): its first statement is
\* enumerate_monitors()?.
list_monitors ==
    /\ pc = "run"
    /\ cmd' = "List"
    /\ call' = Some([fn |-> "enumerate_monitors", name |-> None])
    /\ pc' = "enumerate"
    /\ UNCHANGED << args, enum_locals, monitors, iter, mon, vcp_mon, ret,
                    exit, printed, calls, released, os_state, enumerated >>
    /\ UNCHANGED << lib_locals, par_locals >>

\* The ten commands that work on one monitor (get_brightness .. reset_defaults)
\* have the same first statement, get_monitor(device, primary)?; it runs
\* here, and which of the ten is running is drawn where their bodies differ.
run_on_monitor ==
    /\ pc = "run"
    /\ \E a \in CommandArgs :
          LET device == a.device
              primary == a.primary
          IN
          /\ args' = Some([device |-> device, primary |-> primary])
          /\ call' = Some(get_monitor(device, primary))
    /\ pc' = "enumerate"
    /\ UNCHANGED << enum_locals, monitors, iter, mon, ret, released,
                    os_state, enumerated, cmd_locals >>
    /\ UNCHANGED << lib_locals, par_locals >>

\* ------------------------------------------------------------------------
\* enumerate_monitors (monitor.rs)
\* ------------------------------------------------------------------------

\* enumerate_monitors returns `res`; its locals go out of scope.
enumerate_return(res) ==
    /\ ret' = Some(res)
    /\ pc' = "enum_ret"
    /\ enumerator' = << >>
    /\ oi' = 0
    /\ physical_monitors' = << >>
    /\ pi' = 0

\* Mutant of enumerate_start: the error of MonitorEnumerator::enumerate() is
\* taken for an empty list of outputs.
enumerate_start_ignoring_error ==
    /\ pc = "enumerate"
    /\ \E r \in MonitorEnumerator_enumerate :
          /\ reported' = Append(reported, Len(r.monitors))
          /\ enumerator' = r.monitors
          /\ oi' = 1
          /\ monitors' = << >>
          /\ pc' = "outer"
          /\ UNCHANGED << physical_monitors, pi, ret >>
    /\ UNCHANGED << args, call, iter, mon, released, warnings, nextHandle,
                    queried, attempts, enumerated, cmd_locals >>
    /\ UNCHANGED << lib_locals, par_locals >>

\* let enumerator = native::MonitorEnumerator::enumerate()?;
\* let mut monitors = Vec::new();
enumerate_start ==
    /\ pc = "enumerate"
    /\ \E r \in MonitorEnumerator_enumerate :
          /\ reported' = Append(reported, Len(r.monitors))
          /\ IF ~ r.res.ok
             THEN /\ enumerate_return(r.res)
                  /\ UNCHANGED monitors
             ELSE /\ enumerator' = r.monitors
                  /\ oi' = 1
                  /\ monitors' = << >>
                  /\ pc' = "outer"
                  /\ UNCHANGED << physical_monitors, pi, ret >>
    /\ UNCHANGED << args, call, iter, mon, released, warnings, nextHandle,
                    queried, attempts, enumerated, cmd_locals >>
    /\ UNCHANGED << lib_locals, par_locals >>

\* Mutant of enumerate_output: on an error the monitors built so far are
\* forgotten without being released.
enumerate_output_leaking ==
    /\ pc = "outer"
    /\ oi <= Len(enumerator)
    /\ \E r \in get_physical_monitors(enumerator[oi], nextHandle) :
          /\ queried' = Append(queried, [hmonitor |-> enumerator[oi],
                                          ok       |-> r.res.ok,
                                          res      |-> r.res])
          /\ IF ~ r.res.ok
             THEN /\ UNCHANGED released
                  /\ monitors' = << >>
                  /\ enumerated' = << >>
                  /\ enumerate_return(r.res)
                  /\ UNCHANGED nextHandle
             ELSE /\ nextHandle' = nextHandle + Len(r.pms)
                  /\ IF r.pms = << >>
                     THEN /\ oi' = oi + 1
                          /\ UNCHANGED << physical_monitors, pi >>
                     ELSE /\ physical_monitors' = r.pms
                          /\ pi' = 1
                          /\ UNCHANGED oi
                  /\ pc' = IF r.pms = << >> THEN "outer" ELSE "inner"
                  /\ UNCHANGED << enumerator, monitors, released, ret,
                                  enumerated >>
    /\ UNCHANGED << args, call, iter, mon, warnings, reported, attempts,
                    cmd_locals >>
    /\ UNCHANGED << lib_locals, par_locals >>

\* for hmonitor in enumerator.monitors {
\*     let physical_monitors = native::get_physical_monitors(hmonitor)?;
\* An error drops the monitors built so far and returns; an output without
\* endpoints lets the outer loop go on.
enumerate_output ==
    /\ pc = "outer"
    /\ oi <= Len(enumerator)
    /\ \E r \in get_physical_monitors(enumerator[oi], nextHandle) :
          /\ queried' = Append(queried, [hmonitor |-> enumerator[oi],
                                          ok       |-> r.res.ok,
                                          res      |-> r.res])
          /\ IF ~ r.res.ok
             THEN /\ released' = DropAll(released, monitors)
                  /\ monitors' = << >>
                  /\ enumerated' = << >>
                  /\ enumerate_return(r.res)
                  /\ UNCHANGED nextHandle
             ELSE /\ nextHandle' = nextHandle + Len(r.pms)
                  /\ IF r.pms = << >>
                     THEN /\ oi' = oi + 1
                          /\ UNCHANGED << physical_monitors, pi >>
                     ELSE /\ physical_monitors' = r.pms
                          /\ pi' = 1
                          /\ UNCHANGED oi
                  /\ pc' = IF r.pms = << >> THEN "outer" ELSE "inner"
                  /\ UNCHANGED << enumerator, monitors, released, ret,
                                  enumerated >>
    /\ UNCHANGED << args, call, iter, mon, warnings, reported, attempts,
                    cmd_locals >>
    /\ UNCHANGED << lib_locals, par_locals >>

\* Mutant of enumerate_endpoint: the handle of an endpoint whose construction
\* failed is released all the same.
enumerate_endpoint_releasing_failed ==
    /\ pc = "inner"
    /\ pi <= Len(physical_monitors)
    /\ LET hmonitor == enumerator[oi]
           pm       == physical_monitors[pi]
       IN \E r \in get_monitor_info(hmonitor) :
             /\ IF r.ok
                THEN LET monitor == PhysicalMonitorNew(hmonitor, pm, r.dwFlags)
                     IN /\ monitors' = Append(monitors, monitor)
                        /\ enumerated' = Append(enumerated,
                                             [monitor |-> monitor,
                                              dwFlags |-> r.dwFlags])
                        /\ UNCHANGED warnings
                ELSE /\ warnings' = warnings + 1
                     /\ UNCHANGED << monitors, enumerated >>
             /\ released' = IF r.ok THEN released
                            ELSE destroy_physical_monitor(released,
                                                          pm.h_physical_monitor)
             /\ attempts' = Append(attempts,
                               [hmonitor |-> hmonitor,
                                handle   |-> pm.h_physical_monitor,
                                ok       |-> r.ok])
    /\ IF pi = Len(physical_monitors)
       THEN /\ oi' = oi + 1
            /\ physical_monitors' = << >>
            /\ pi' = 0
            /\ pc' = "outer"
       ELSE /\ pi' = pi + 1
            /\ UNCHANGED << oi, physical_monitors, pc >>
    /\ UNCHANGED << args, call, enumerator, iter, mon, ret, nextHandle,
                    reported, queried, cmd_locals >>
    /\ UNCHANGED << lib_locals, par_locals >>

\* Mutant of enumerate_endpoint: a failed construction is skipped without a
\* warning.
enumerate_endpoint_silent ==
    /\ pc = "inner"
    /\ pi <= Len(physical_monitors)
    /\ LET hmonitor == enumerator[oi]
           pm       == physical_monitors[pi]
       IN \E r \in get_monitor_info(hmonitor) :
             /\ IF r.ok
                THEN LET monitor == PhysicalMonitorNew(hmonitor, pm, r.dwFlags)
                     IN /\ monitors' = Append(monitors, monitor)
                        /\ enumerated' = Append(enumerated,
                                             [monitor |-> monitor,
                                              dwFlags |-> r.dwFlags])
                        /\ UNCHANGED warnings
                ELSE UNCHANGED << warnings, monitors, enumerated >>
             /\ attempts' = Append(attempts,
                               [hmonitor |-> hmonitor,
                                handle   |-> pm.h_physical_monitor,
                                ok       |-> r.ok])
    /\ IF pi = Len(physical_monitors)
       THEN /\ oi' = oi + 1
            /\ physical_monitors' = << >>
            /\ pi' = 0
            /\ pc' = "outer"
       ELSE /\ pi' = pi + 1
            /\ UNCHANGED << oi, physical_monitors, pc >>
    /\ UNCHANGED << args, call, enumerator, iter, mon, ret, released,
                    nextHandle, reported, queried, cmd_locals >>
    /\ UNCHANGED << lib_locals, par_locals >>

\* Mutant of enumerate_endpoint: PhysicalMonitor::new(hmonitor, pm)? in place of
\* the match, so that a failed construction ends the enumeration.
enumerate_endpoint_propagating ==
    /\ pc = "inner"
    /\ pi <= Len(physical_monitors)
    /\ LET hmonitor == enumerator[oi]
           pm       == physical_monitors[pi]
       IN \E r \in get_monitor_info(hmonitor) :
             /\ attempts' = Append(attempts,
                               [hmonitor |-> hmonitor,
                                handle   |-> pm.h_physical_monitor,
                                ok       |-> r.ok])
             /\ IF r.ok
                THEN LET monitor == PhysicalMonitorNew(hmonitor, pm, r.dwFlags)
                     IN /\ monitors' = Append(monitors, monitor)
                        /\ enumerated' = Append(enumerated,
                                             [monitor |-> monitor,
                                              dwFlags |-> r.dwFlags])
                        /\ IF pi = Len(physical_monitors)
                           THEN /\ oi' = oi + 1
                                /\ physical_monitors' = << >>
                                /\ pi' = 0
                                /\ pc' = "outer"
                           ELSE /\ pi' = pi + 1
                                /\ UNCHANGED << oi, physical_monitors, pc >>
                        /\ UNCHANGED << enumerator, ret, released >>
                ELSE /\ released' = DropAll(released, monitors)
                     /\ monitors' = << >>
                     /\ enumerated' = << >>
                     /\ enumerate_return(Err("UnsupportedOperation", None))
    /\ UNCHANGED << args, call, iter, mon, warnings, nextHandle, reported,
                    queried, cmd_locals >>
    /\ UNCHANGED << lib_locals, par_locals >>

\* for pm in &physical_monitors {
\*     match PhysicalMonitor::new(hmonitor, pm) {
\*         Ok(monitor) => monitors.push(monitor),
\*         Err(e) => eprintln!("Warning: Failed to create monitor: {}", e),
\* PhysicalMonitor::new fails exactly when get_monitor_info(hmonitor)? does.
enumerate_endpoint ==
    /\ pc = "inner"
    /\ pi <= Len(physical_monitors)
    /\ LET hmonitor == enumerator[oi]
           pm       == physical_monitors[pi]
       IN \E r \in get_monitor_info(hmonitor) :
             /\ IF r.ok
                THEN LET monitor == PhysicalMonitorNew(hmonitor, pm, r.dwFlags)
                     IN /\ monitors' = Append(monitors, monitor)
                        /\ enumerated' = Append(enumerated,
                                             [monitor |-> monitor,
                                              dwFlags |-> r.dwFlags])
                        /\ UNCHANGED warnings
                ELSE /\ warnings' = warnings + 1
                     /\ UNCHANGED << monitors, enumerated >>
             /\ attempts' = Append(attempts,
                               [hmonitor |-> hmonitor,
                                handle   |-> pm.h_physical_monitor,
                                ok       |-> r.ok])
    /\ IF pi = Len(physical_monitors)
       THEN /\ oi' = oi + 1
            /\ physical_monitors' = << >>
            /\ pi' = 0
            /\ pc' = "outer"
       ELSE /\ pi' = pi + 1
            /\ UNCHANGED << oi, physical_monitors, pc >>
    /\ UNCHANGED << args, call, enumerator, iter, mon, ret, released,
                    nextHandle, reported, queried, cmd_locals >>
    /\ UNCHANGED << lib_locals, par_locals >>

\* Ok(monitors)
enumerate_done ==
    /\ pc = "outer"
    /\ oi > Len(enumerator)
    /\ enumerate_return(Ok)
    /\ UNCHANGED << args, call, monitors, iter, mon, released, os_state,
                    enumerated, cmd_locals >>
    /\ UNCHANGED << lib_locals, par_locals >>

\* ------------------------------------------------------------------------
\* find_monitor and get_primary_monitor (monitor.rs)
\* ------------------------------------------------------------------------

\* Mutant of find_monitor_pred: the friendly name is not looked at.
find_monitor_pred_device_only(device_name, m) ==
    m.device_name = device_name

\* The closure given to find.
find_monitor_pred(device_name, m) ==
    m.device_name = device_name \/ m.friendly_name = device_name

get_primary_monitor_pred(m) == m.is_primary

Selects(c, m) ==
    IF c.fn = "find_monitor"
    THEN find_monitor_pred(c.name, m)
    ELSE get_primary_monitor_pred(m)

\* Mutant of NotFound: one text for both functions.
NotFound_fixed_text(c) == Err("MonitorNotFound", <<"Primary monitor">>)

\* The error of ok_or_else.
NotFound(c) ==
    IF c.fn = "find_monitor"
    THEN Err("MonitorNotFound", c.name)
    ELSE Err("MonitorNotFound", <<"Primary monitor">>)

\* let monitors = enumerate_monitors()?;  with an Err: the function returns it.
select_enumerate_failed ==
    /\ pc = "enum_ret"
    /\ call[1].fn # "enumerate_monitors"
    /\ ~ ret[1].ok
    /\ pc' = "sel_ret"
    /\ UNCHANGED << args, call, enum_locals, monitors, iter, mon, ret,
                    released, os_state, enumerated, cmd_locals >>
    /\ UNCHANGED << lib_locals, par_locals >>

\* Mutant of select_into_iter: the Vec is cloned, not moved, into the
\* iterator.
select_into_iter_clone ==
    /\ pc = "enum_ret"
    /\ call[1].fn # "enumerate_monitors"
    /\ ret[1].ok
    /\ iter' = monitors
    /\ pc' = "find"
    /\ UNCHANGED << args, call, enum_locals, monitors, mon, ret, released,
                    os_state, enumerated, cmd_locals >>
    /\ UNCHANGED << lib_locals, par_locals >>

\* let monitors = enumerate_monitors()?;  with an Ok: monitors.into_iter()
select_into_iter ==
    /\ pc = "enum_ret"
    /\ call[1].fn # "enumerate_monitors"
    /\ ret[1].ok
    /\ iter' = monitors
    /\ monitors' = << >>
    /\ pc' = "find"
    /\ UNCHANGED << args, call, enum_locals, mon, ret, released, os_state,
                    enumerated, cmd_locals >>
    /\ UNCHANGED << lib_locals, par_locals >>

\* Iterator::find takes the next element and the closure rejects it: the
\* element is dropped.
find_skip ==
    /\ pc = "find"
    /\ iter # << >>
    /\ ~ Selects(call[1], Head(iter))
    /\ released' = Drop(released, Head(iter))
    /\ iter' = Tail(iter)
    /\ UNCHANGED << pc, args, call, enum_locals, monitors, mon, ret,
                    os_state, enumerated, cmd_locals >>
    /\ UNCHANGED << lib_locals, par_locals >>

\* Mutant of find_match: the elements the IntoIter still holds are forgotten
\* without being dropped.
find_match_forgetting_rest ==
    /\ pc = "find"
    /\ iter # << >>
    /\ Selects(call[1], Head(iter))
    /\ mon' = Some(Head(iter))
    /\ UNCHANGED released
    /\ iter' = << >>
    /\ ret' = Some(Ok)
    /\ pc' = "sel_ret"
    /\ UNCHANGED << args, call, enum_locals, monitors, os_state, enumerated,
                    cmd_locals >>
    /\ UNCHANGED << lib_locals, par_locals >>

\* The closure accepts the element: it is the Some(m) that ok_or_else turns
\* into Ok(m); the IntoIter is dropped with the elements it still holds.
find_match ==
    /\ pc = "find"
    /\ iter # << >>
    /\ Selects(call[1], Head(iter))
    /\ mon' = Some(Head(iter))
    /\ released' = DropAll(released, Tail(iter))
    /\ iter' = << >>
    /\ ret' = Some(Ok)
    /\ pc' = "sel_ret"
    /\ UNCHANGED << args, call, enum_locals, monitors, os_state, enumerated,
                    cmd_locals >>
    /\ UNCHANGED << lib_locals, par_locals >>

\* The iterator is exhausted: find gives None, ok_or_else the error.
find_none ==
    /\ pc = "find"
    /\ iter = << >>
    /\ ret' = Some(NotFound(call[1]))
    /\ pc' = "sel_ret"
    /\ UNCHANGED << args, call, enum_locals, monitors, iter, mon, released,
                    os_state, enumerated, cmd_locals >>
    /\ UNCHANGED << lib_locals, par_locals >>

\* ------------------------------------------------------------------------
\* Commands (cli.rs)
\* ------------------------------------------------------------------------

\* list_monitors after enumerate_monitors()? gave an Err.
list_monitors_failed ==
    /\ pc = "enum_ret"
    /\ call[1].fn = "enumerate_monitors"
    /\ ~ ret[1].ok
    /\ exit' = Some(ret[1])
    /\ enumerated' = << >>
    /\ pc' = "done"
    /\ UNCHANGED << cmd, args, call, enum_locals, monitors, iter, mon,
                    vcp_mon, ret, printed, calls, released, os_state >>
    /\ UNCHANGED << lib_locals, par_locals >>

\* list_monitors after enumerate_monitors()? gave the Vec: one line per
\* monitor is printed, Ok(()) is returned and the Vec is dropped.
list_monitors_print ==
    /\ pc = "enum_ret"
    /\ call[1].fn = "enumerate_monitors"
    /\ ret[1].ok
    /\ printed' = [i \in 1 .. Len(monitors) |->
                     << monitors[i].device_name, monitors[i].friendly_name,
                        monitors[i].is_primary >>]
    /\ released' = DropAll(released, monitors)
    /\ monitors' = << >>
    /\ enumerated' = << >>
    /\ exit' = Some(Ok)
    /\ pc' = "done"
    /\ UNCHANGED << cmd, args, call, enum_locals, iter, mon, vcp_mon, ret,
                    calls, os_state >>
    /\ UNCHANGED << lib_locals, par_locals >>

\* let mon = get_monitor(device, primary)?;  with an Err: the command
\* returns it.
get_monitor_failed ==
    /\ pc = "sel_ret"
    /\ ~ ret[1].ok
    /\ exit' = Some(ret[1])
    /\ enumerated' = << >>
    /\ pc' = "done"
    /\ UNCHANGED << cmd, args, call, enum_locals, monitors, iter, mon,
                    vcp_mon, ret, printed, calls, released, os_state >>
    /\ UNCHANGED << lib_locals, par_locals >>

\* let mon = get_monitor(device, primary)?;  with an Ok: the command owns the
\* PhysicalMonitor that find_monitor or get_primary_monitor returned.
get_monitor_return ==
    /\ pc = "sel_ret"
    /\ ret[1].ok
    /\ enumerated' = << >>
    /\ pc' = "selected"
    /\ UNCHANGED << args, call, enum_locals, monitors, iter, mon, ret,
                    released, os_state, cmd_locals >>
    /\ UNCHANGED << lib_locals, par_locals >>

\* ------------------------------------------------------------------------
\* The DDC/CI transport (crate::native::dxva2) and what drives it
\* ------------------------------------------------------------------------

\* The highest VCP code: the upper end of `for code in 0u8..=255u8`.
LastCode == 255

\* u8 and u32 arguments a user may give.
CodeArgs == { 16 }

ValueArgs == { 1000 }

\* BOOL results of the transport: 0 is failure.
BoolResults == { 0, 1 }

\* A transport call is logged with whether its handle had been released and
\* with the BOOL it answered.
TransportCall(log, fn, handle, a, rel, result) ==
    Append(log, [fn |-> fn, handle |-> handle, args |-> a,
                 released |-> rel[handle], result |-> result])

Unsupported(detail) == Err("UnsupportedOperation", << detail >>)

\* PhysicalMonitor::handle
PhysicalMonitor_handle(m) == m.handle

\* VcpMonitor::new
VcpMonitorNew(handle) == [handle |-> handle]

\* impl Monitor for PhysicalMonitor: the Result each method makes of the
\* transport's answer.
PhysicalMonitor_get_brightness(r) ==
    IF r.result = 0
    THEN [res |-> Unsupported("GetMonitorBrightness failed"), value |-> None]
    ELSE [res |-> Ok,
          value |-> Some([minimum |-> r.min, current |-> r.current,
                          maximum |-> r.max])]

PhysicalMonitor_set_brightness(result) ==
    IF result = 0 THEN Unsupported("SetMonitorBrightness failed") ELSE Ok

PhysicalMonitor_get_contrast(r) ==
    IF r.result = 0
    THEN [res |-> Unsupported("GetMonitorContrast failed"), value |-> None]
    ELSE [res |-> Ok,
          value |-> Some([minimum |-> r.min, current |-> r.current,
                          maximum |-> r.max])]

PhysicalMonitor_set_contrast(result) ==
    IF result = 0 THEN Unsupported("SetMonitorContrast failed") ELSE Ok

\* What GetMonitorBrightness and GetMonitorContrast may answer.
RangeReplies ==
    { [result |-> 0, min |-> 0, current |-> 0, max |-> 0] }
    \cup
    { [result |-> 1, min |-> 0, current |-> 50, max |-> 100] }

\* What GetVCPFeatureAndVCPFeatureReply may answer.
VcpReplies ==
    { [result |-> 0, pvct |-> 0, current |-> 0, maximum |-> 0] }
    \cup
    { [result |-> 1, pvct |-> t, current |-> 50, maximum |-> 100]
        : t \in { 0, 1, 2 } }

\* Mutant of VcpMonitor_get_vcp_feature: Momentary only for the type 1, the
\* discriminant of VcpCodeType::Momentary.
VcpMonitor_get_vcp_feature_type_one(vcp_code, r) ==
    IF r.result = 0
    THEN [res |-> Err("VcpNotSupported", None), response |-> None]
    ELSE [res |-> Ok,
          response |-> Some([vcp_code      |-> vcp_code,
                             current_value |-> r.current,
                             maximum_value |-> r.maximum,
                             code_type     |-> IF r.pvct = 1
                                               THEN "Momentary"
                                               ELSE "SetParameter"])]

\* Mutant of VcpMonitor_get_vcp_feature: the error of the other methods.
VcpMonitor_get_vcp_feature_unsupported(vcp_code, r) ==
    IF r.result = 0
    THEN [res |-> Unsupported("GetVCPFeatureAndVCPFeatureReply failed"),
          response |-> None]
    ELSE [res |-> Ok,
          response |-> Some([vcp_code      |-> vcp_code,
                             current_value |-> r.current,
                             maximum_value |-> r.maximum,
                             code_type     |-> IF r.pvct = 0
                                               THEN "SetParameter"
                                               ELSE "Momentary"])]

\* VcpMonitor::get_vcp_feature
VcpMonitor_get_vcp_feature(vcp_code, r) ==
    IF r.result = 0
    THEN [res |-> Err("VcpNotSupported", None), response |-> None]
    ELSE [res |-> Ok,
          response |-> Some([vcp_code      |-> vcp_code,
                             current_value |-> r.current,
                             maximum_value |-> r.maximum,
                             code_type     |-> IF r.pvct = 0
                                               THEN "SetParameter"
                                               ELSE "Momentary"])]

\* VcpMonitor::set_vcp_feature
VcpMonitor_set_vcp_feature(result) ==
    IF result = 0 THEN Unsupported("SetVCPFeature failed") ELSE Ok

\* The monitors a scan may meet: which codes they answer.
ScanSupported == { {}, { 16, 18 }, 0 .. LastCode }

\* What such a monitor answers for `code`.
ScanReply(supported, code) ==
    IF code \in supported
    THEN [result |-> 1, pvct |-> code % 2, current |-> code, maximum |-> 255]
    ELSE [result |-> 0, pvct |-> 0, current |-> 0, maximum |-> 0]

\* VcpMonitor::scan_vcp_features, the turns of `for code in 0u8..=255u8` for
\* the codes lo .. hi on a monitor that answers the codes of `supported`:
\* what they push, in ascending order of code (the range is halved so that
\* the evaluation stays shallow).
RECURSIVE VcpMonitor_scan_vcp_features_range(_, _, _)
VcpMonitor_scan_vcp_features_range(lo, hi, supported) ==
    IF lo > hi THEN << >>
    ELSE IF lo = hi
         THEN VcpMonitor_get_vcp_feature(lo, ScanReply(supported, lo)).response
         ELSE VcpMonitor_scan_vcp_features_range(lo, (lo + hi) \div 2, supported)
              \o VcpMonitor_scan_vcp_features_range((lo + hi) \div 2 + 1, hi,
                                                    supported)

\* VcpMonitor::scan_vcp_features
VcpMonitor_scan_vcp_features(supported) ==
    VcpMonitor_scan_vcp_features_range(0, LastCode, supported)

\* What a scan returns on each of the monitors of ScanSupported.
ScanFeatures ==
    [supported \in ScanSupported |-> VcpMonitor_scan_vcp_features(supported)]

\* The transport calls of one scan on `handle`, added to the log.
scan_calls(log, handle, rel, supported) ==
    log \o [i \in 1 .. LastCode + 1 |->
              [fn |-> "GetVCPFeatureAndVCPFeatureReply", handle |-> handle,
               args |-> << i - 1 >>, released |-> rel[handle],
               result |-> ScanReply(supported, i - 1).result]]

\* Mutant of VcpMonitor_save_settings: the BOOL of the transport is not
\* looked at.
VcpMonitor_save_settings_unchecked(result) == Ok

\* VcpMonitor::save_settings and the two restores.
VcpMonitor_save_settings(result) ==
    IF result = 0 THEN Unsupported("SaveCurrentMonitorSettings failed") ELSE Ok

VcpMonitor_restore_factory_defaults(result) ==
    IF result = 0 THEN Unsupported("RestoreMonitorFactoryDefaults failed") ELSE Ok

VcpMonitor_restore_factory_color_defaults(result) ==
    IF result = 0
    THEN Unsupported("RestoreMonitorFactoryColorDefaults failed")
    ELSE Ok

\* What GetCapabilitiesStringLength may answer.
CapLengthReplies ==
    { [result |-> 0, length |-> 0] }
    \cup
    { [result |-> 1, length |-> n] : n \in { 0, 2 } }

\* The bytes a capability buffer may hold: NUL and 'A'.
CapBytes == { 0, 65 }

\* What CapabilitiesRequestAndCapabilitiesReply may answer for a buffer of
\* `length` zero bytes.
CapStringReplies(length) ==
    { [result |-> 0, buffer |-> [i \in 1 .. length |-> 0]] }
    \cup
    { [result |-> 1, buffer |-> b] : b \in [1 .. length -> CapBytes] }

\* Mutant of position_of_nul: only the NULs at the end are cut,
\* trim_end_matches('\0').
RECURSIVE position_of_nul_trailing(_)
position_of_nul_trailing(buffer) ==
    IF buffer = << >> THEN 0
    ELSE IF buffer[Len(buffer)] = 0
         THEN position_of_nul_trailing(SubSeq(buffer, 1, Len(buffer) - 1))
         ELSE Len(buffer)

\* buffer.iter().position(|&b| b == 0).unwrap_or(buffer.len()), as the
\* number of bytes before the first NUL.
RECURSIVE position_of_nul(_)
position_of_nul(buffer) ==
    IF buffer = << >> \/ Head(buffer) = 0 THEN 0
    ELSE 1 + position_of_nul(Tail(buffer))

\* String::from_utf8_lossy on bytes of CapBytes: an ASCII byte is its
\* character, a byte that starts no UTF-8 sequence becomes U+FFFD.
from_utf8_lossy(bytes) ==
    [i \in 1 .. Len(bytes) |-> IF bytes[i] < 128 THEN bytes[i] ELSE 65533]

\* Mutant of VcpMonitor_get_capabilities: the whole buffer is decoded, the
\* NUL bytes and what follows them included.
VcpMonitor_get_capabilities_whole_buffer(r1, r2) ==
    IF r1.result = 0
    THEN [res |-> Unsupported("GetCapabilitiesStringLength failed"),
          value |-> None]
    ELSE IF r2.result = 0
         THEN [res |-> Unsupported("CapabilitiesRequestAndCapabilitiesReply failed"),
               value |-> None]
         ELSE [res |-> Ok, value |-> Some(from_utf8_lossy(r2.buffer))]

\* VcpMonitor::get_capabilities, given the transport's two answers (the
\* second is not asked for when the first is a failure).
VcpMonitor_get_capabilities(r1, r2) ==
    IF r1.result = 0
    THEN [res |-> Unsupported("GetCapabilitiesStringLength failed"),
          value |-> None]
    ELSE IF r2.result = 0
         THEN [res |-> Unsupported("CapabilitiesRequestAndCapabilitiesReply failed"),
               value |-> None]
         ELSE [res |-> Ok,
               value |-> Some(from_utf8_lossy(
                            SubSeq(r2.buffer, 1, position_of_nul(r2.buffer))))]

\* ------------------------------------------------------------------------
\* The commands on one monitor (cli.rs)
\* ------------------------------------------------------------------------

\* A command function has run its body after get_monitor: it is `name`, it
\* issued the transport calls that make the log `log`, `res` is what it
\* returns and `out` what it printed.
command_body(name, log, res, out) ==
    /\ cmd' = name
    /\ calls' = log
    /\ exit' = Some(res)
    /\ printed' = out
    /\ pc' = "return"
    /\ UNCHANGED << args, call, enum_locals, monitors, iter, mon, vcp_mon,
                    ret, released, os_state, enumerated >>

\* get_brightness: mon.get_brightness()? and the line it prints.
cli_get_brightness ==
    /\ pc = "selected"
    /\ \E r \in RangeReplies :
          LET b == PhysicalMonitor_get_brightness(r)
          IN command_body("GetBrightness",
                 TransportCall(calls, "GetMonitorBrightness", mon[1].handle,
                               << >>, released, r.result),
                 b.res,
                 IF b.res.ok THEN << <<"Current brightness", b.value[1]>> >>
                 ELSE << >>)
    /\ UNCHANGED << lib_locals, par_locals >>

\* set_brightness: mon.set_brightness(value)? and "Brightness set to".
cli_set_brightness ==
    /\ pc = "selected"
    /\ \E value \in ValueArgs, result \in BoolResults :
          LET res == PhysicalMonitor_set_brightness(result)
          IN command_body("SetBrightness",
                 TransportCall(calls, "SetMonitorBrightness", mon[1].handle,
                               << value >>, released, result),
                 res,
                 IF res.ok THEN << <<"Brightness set to", value>> >> ELSE << >>)
    /\ UNCHANGED << lib_locals, par_locals >>

\* get_contrast: mon.get_contrast()? and the line it prints.
cli_get_contrast ==
    /\ pc = "selected"
    /\ \E r \in RangeReplies :
          LET c == PhysicalMonitor_get_contrast(r)
          IN command_body("GetContrast",
                 TransportCall(calls, "GetMonitorContrast", mon[1].handle,
                               << >>, released, r.result),
                 c.res,
                 IF c.res.ok THEN << <<"Current contrast", c.value[1]>> >>
                 ELSE << >>)
    /\ UNCHANGED << lib_locals, par_locals >>

\* set_contrast: mon.set_contrast(value)? and "Contrast set to".
cli_set_contrast ==
    /\ pc = "selected"
    /\ \E value \in ValueArgs, result \in BoolResults :
          LET res == PhysicalMonitor_set_contrast(result)
          IN command_body("SetContrast",
                 TransportCall(calls, "SetMonitorContrast", mon[1].handle,
                               << value >>, released, result),
                 res,
                 IF res.ok THEN << <<"Contrast set to", value>> >> ELSE << >>)
    /\ UNCHANGED << lib_locals, par_locals >>

\* The commands that build a VcpMonitor.
VcpCommands ==
    { "GetVcp", "SetVcp", "ScanVcp", "GetCapabilities", "SaveSettings",
      "ResetDefaults" }

\* Mutant of vcp_monitor_new: the PhysicalMonitor is a temporary of the
\* statement, VcpMonitor::new(get_monitor(device, primary)?.handle()), dropped
\* at its end.
vcp_monitor_new_temporary ==
    /\ pc = "selected"
    /\ cmd' \in { "GetVcp", "SetVcp", "ScanVcp", "GetCapabilities",
                  "SaveSettings", "ResetDefaults" }
    /\ vcp_mon' = Some(VcpMonitorNew(PhysicalMonitor_handle(mon[1])))
    /\ released' = Drop(released, mon[1])
    /\ pc' = "vcp"
    /\ UNCHANGED << args, call, enum_locals, monitors, iter, mon, ret, exit,
                    printed, calls, os_state, enumerated >>
    /\ UNCHANGED << lib_locals, par_locals >>

\* let vcp_mon = vcp::VcpMonitor::new(mon.handle());  the second statement of
\* get_vcp, set_vcp, scan_vcp, get_capabilities, save_settings and
\* reset_defaults.
vcp_monitor_new ==
    /\ pc = "selected"
    /\ cmd' \in VcpCommands
    /\ vcp_mon' = Some(VcpMonitorNew(PhysicalMonitor_handle(mon[1])))
    /\ pc' = "vcp"
    /\ UNCHANGED << args, call, enum_locals, monitors, iter, mon, ret, exit,
                    printed, calls, released, os_state, enumerated >>
    /\ UNCHANGED << lib_locals, par_locals >>

\* The rest of a command that holds a VcpMonitor.
vcp_command_body(log, res, out) ==
    /\ calls' = log
    /\ exit' = Some(res)
    /\ printed' = out
    /\ pc' = "return"
    /\ UNCHANGED << cmd, args, call, enum_locals, monitors, iter, mon,
                    vcp_mon, ret, released, os_state, enumerated >>

\* get_vcp: vcp_mon.get_vcp_feature(code)? and the lines it prints.
cli_get_vcp ==
    /\ pc = "vcp"
    /\ cmd = "GetVcp"
    /\ \E code \in CodeArgs, r \in VcpReplies :
          LET f == VcpMonitor_get_vcp_feature(code, r)
          IN vcp_command_body(
                 TransportCall(calls, "GetVCPFeatureAndVCPFeatureReply",
                               vcp_mon[1].handle, << code >>, released, r.result),
                 f.res,
                 IF f.res.ok THEN << <<"VCP Code", f.response[1]>> >>
                 ELSE << >>)
    /\ UNCHANGED << lib_locals, par_locals >>

\* set_vcp: vcp_mon.set_vcp_feature(code, value)? and "VCP code .. set to".
cli_set_vcp ==
    /\ pc = "vcp"
    /\ cmd = "SetVcp"
    /\ \E code \in CodeArgs, value \in ValueArgs, result \in BoolResults :
          LET res == VcpMonitor_set_vcp_feature(result)
          IN vcp_command_body(
                 TransportCall(calls, "SetVCPFeature", vcp_mon[1].handle,
                               << code, value >>, released, result),
                 res,
                 IF res.ok THEN << <<"VCP code set to", code, value>> >>
                 ELSE << >>)
    /\ UNCHANGED << lib_locals, par_locals >>

\* scan_vcp: vcp_mon.scan_vcp_features() and the table of the features found;
\* it returns Ok(()) whatever the scan found.
cli_scan_vcp ==
    /\ pc = "vcp"
    /\ cmd = "ScanVcp"
    /\ \E supported \in ScanSupported :
          vcp_command_body(
              scan_calls(calls, vcp_mon[1].handle, released, supported),
              Ok,
              << <<"Found supported VCP codes", ScanFeatures[supported]>> >>)
    /\ UNCHANGED << lib_locals, par_locals >>

\* get_capabilities: vcp_mon.get_capabilities()? and the string printed.
cli_get_capabilities ==
    /\ pc = "vcp"
    /\ cmd = "GetCapabilities"
    /\ \E r1 \in CapLengthReplies :
          \E r2 \in CapStringReplies(r1.length) :
             /\ (r1.result = 0 => r2.result = 0)
             /\ LET c  == VcpMonitor_get_capabilities(r1, r2)
                    l1 == TransportCall(calls, "GetCapabilitiesStringLength",
                                        vcp_mon[1].handle, << >>, released, r1.result)
                    l2 == TransportCall(l1,
                                        "CapabilitiesRequestAndCapabilitiesReply",
                                        vcp_mon[1].handle, << r1.length >>,
                                        released, r2.result)
                IN vcp_command_body(
                       IF r1.result = 0 THEN l1 ELSE l2,
                       c.res,
                       IF c.res.ok THEN << <<"Capabilities", c.value[1]>> >>
                       ELSE << >>)
    /\ UNCHANGED << lib_locals, par_locals >>

\* save_settings: vcp_mon.save_settings()? and "Monitor settings saved".
cli_save_settings ==
    /\ pc = "vcp"
    /\ cmd = "SaveSettings"
    /\ \E result \in BoolResults :
          LET res == VcpMonitor_save_settings(result)
          IN vcp_command_body(
                 TransportCall(calls, "SaveCurrentMonitorSettings",
                               vcp_mon[1].handle, << >>, released, result),
                 res,
                 IF res.ok THEN << <<"Monitor settings saved">> >> ELSE << >>)
    /\ UNCHANGED << lib_locals, par_locals >>

\* Mutant of cli_reset_defaults: the two branches are exchanged.
cli_reset_defaults_swapped ==
    /\ pc = "vcp"
    /\ cmd = "ResetDefaults"
    /\ \E color_only \in BOOLEAN, result \in BoolResults :
          LET res == IF ~ color_only
                     THEN VcpMonitor_restore_factory_color_defaults(result)
                     ELSE VcpMonitor_restore_factory_defaults(result)
              fn  == IF ~ color_only
                     THEN "RestoreMonitorFactoryColorDefaults"
                     ELSE "RestoreMonitorFactoryDefaults"
              msg == IF ~ color_only
                     THEN "Monitor color settings reset to factory defaults"
                     ELSE "Monitor reset to factory defaults"
          IN /\ args' = Some([device     |-> args[1].device,
                              primary    |-> args[1].primary,
                              color_only |-> color_only])
             /\ calls' = TransportCall(calls, fn, vcp_mon[1].handle, << >>,
                                       released, result)
             /\ exit' = Some(res)
             /\ printed' = IF res.ok THEN << << msg >> >> ELSE << >>
    /\ pc' = "return"
    /\ UNCHANGED << cmd, call, enum_locals, monitors, iter, mon, vcp_mon,
                    ret, released, os_state, enumerated >>
    /\ UNCHANGED << lib_locals, par_locals >>

\* reset_defaults: one of the two restores, chosen by color_only, and its
\* message; the color_only argument is kept with the other arguments.
cli_reset_defaults ==
    /\ pc = "vcp"
    /\ cmd = "ResetDefaults"
    /\ \E color_only \in BOOLEAN, result \in BoolResults :
          LET res == IF color_only
                     THEN VcpMonitor_restore_factory_color_defaults(result)
                     ELSE VcpMonitor_restore_factory_defaults(result)
              fn  == IF color_only
                     THEN "RestoreMonitorFactoryColorDefaults"
                     ELSE "RestoreMonitorFactoryDefaults"
              msg == IF color_only
                     THEN "Monitor color settings reset to factory defaults"
                     ELSE "Monitor reset to factory defaults"
          IN /\ args' = Some([device     |-> args[1].device,
                              primary    |-> args[1].primary,
                              color_only |-> color_only])
             /\ calls' = TransportCall(calls, fn, vcp_mon[1].handle, << >>,
                                       released, result)
             /\ exit' = Some(res)
             /\ printed' = IF res.ok THEN << << msg >> >> ELSE << >>
    /\ pc' = "return"
    /\ UNCHANGED << cmd, call, enum_locals, monitors, iter, mon, vcp_mon,
                    ret, released, os_state, enumerated >>
    /\ UNCHANGED << lib_locals, par_locals >>

\* The command function returns after its body: its locals are dropped in
\* reverse order of declaration, vcp_mon (which owns nothing) and then mon.
command_return ==
    /\ pc = "return"
    /\ vcp_mon' = None
    /\ released' = Drop(released, mon[1])
    /\ mon' = None
    /\ pc' = "done"
    /\ UNCHANGED << cmd, args, call, enum_locals, monitors, iter, ret, exit,
                    printed, calls, os_state, enumerated >>
    /\ UNCHANGED << lib_locals, par_locals >>

Next ==
    \/ list_monitors
    \/ run_on_monitor
    \/ enumerate_start
    \/ enumerate_output
    \/ enumerate_endpoint
    \/ enumerate_done
    \/ select_enumerate_failed
    \/ select_into_iter
    \/ find_skip
    \/ find_match
    \/ find_none
    \/ list_monitors_failed
    \/ list_monitors_print
    \/ get_monitor_failed
    \/ get_monitor_return
    \/ cli_get_brightness
    \/ cli_set_brightness
    \/ cli_get_contrast
    \/ cli_set_contrast
    \/ vcp_monitor_new
    \/ cli_get_vcp
    \/ cli_set_vcp
    \/ cli_scan_vcp
    \/ cli_get_capabilities
    \/ cli_save_settings
    \/ cli_reset_defaults
    \/ command_return

Spec == Init /\ [][Next]_vars



\* ------------------------------------------------------------------------
\* The catalog of VCP codes (vcp.rs)
\* ------------------------------------------------------------------------

\* Mutant of KNOWN_VCP_CODES: a table in which codes::BRIGHTNESS was entered a
\* second time under another name.
KNOWN_VCP_CODES_with_duplicate ==
    <<
      [code |-> 0, name |-> "Code Page"],
      [code |-> 16, name |-> "Luminance"],
      [code |-> 16, name |-> "Brightness"],
      [code |-> 18, name |-> "Contrast"]
    >>

\* KNOWN_VCP_CODES, in the order of the source: the code and the name of each
\* entry (the codes written codes::BRIGHTNESS and so on by their value).
KNOWN_VCP_CODES ==
    <<
      [code |-> 0, name |-> "Code Page"],
      [code |-> 1, name |-> "Degauss"],
      [code |-> 2, name |-> "New Control Value"],
      [code |-> 3, name |-> "Soft Controls"],
      [code |-> 4, name |-> "Restore Factory Defaults"],
      [code |-> 5, name |-> "Restore Factory Luminance / Contrast Defaults"],
      [code |-> 6, name |-> "Restore Factory Geometry Defaults"],
      [code |-> 8, name |-> "Restore Factory Color Defaults"],
      [code |-> 10, name |-> "Restore Factory TV Defaults"],
      [code |-> 11, name |-> "User Color Temperature Increment"],
      [code |-> 12, name |-> "User Color Temperature"],
      [code |-> 14, name |-> "Clock"],
      [code |-> 16, name |-> "Luminance"],
      [code |-> 17, name |-> "Flesh Tone Enhancement"],
      [code |-> 18, name |-> "Contrast"],
      [code |-> 19, name |-> "Backlight Control"],
      [code |-> 20, name |-> "Select Color Preset"],
      [code |-> 22, name |-> "Video Gain (Drive): Red"],
      [code |-> 23, name |-> "User Color Vision Compensation"],
      [code |-> 24, name |-> "Video Gain (Drive): Green"],
      [code |-> 26, name |-> "Video Gain (Drive): Blue"],
      [code |-> 28, name |-> "Focus"],
      [code |-> 30, name |-> "Auto Setup"],
      [code |-> 31, name |-> "Auto Color Setup"],
      [code |-> 32, name |-> "Horizontal Position (Phase)"],
      [code |-> 34, name |-> "Horizontal Size"],
      [code |-> 36, name |-> "Horizontal Pincushion"],
      [code |-> 38, name |-> "Horizontal Pincushion Balance"],
      [code |-> 40, name |-> "Horizontal Convergence R/B"],
      [code |-> 41, name |-> "Horizontal Convergence M/G"],
      [code |-> 42, name |-> "Horizontal Linearity"],
      [code |-> 44, name |-> "Horizontal Linearity Balance"],
      [code |-> 46, name |-> "Gray Scale Expansion"],
      [code |-> 48, name |-> "Vertical Position (Phase)"],
      [code |-> 50, name |-> "Vertical Size"],
      [code |-> 52, name |-> "Vertical Pincushion"],
      [code |-> 54, name |-> "Vertical Pincushion Balance"],
      [code |-> 56, name |-> "Vertical Convergence R/B"],
      [code |-> 57, name |-> "Vertical Convergence M/G"],
      [code |-> 58, name |-> "Vertical Linearity"],
      [code |-> 60, name |-> "Vertical Linearity Balance"],
      [code |-> 62, name |-> "Clock Phase"],
      [code |-> 64, name |-> "Horizontal Parallelogram"],
      [code |-> 65, name |-> "Vertical Parallelogram"],
      [code |-> 66, name |-> "Horizontal Keystone"],
      [code |-> 67, name |-> "Vertical Keystone"],
      [code |-> 68, name |-> "Rotation"],
      [code |-> 70, name |-> "Top Corner Flare"],
      [code |-> 72, name |-> "Top Corner Hook"],
      [code |-> 74, name |-> "Bottom Corner Flare"],
      [code |-> 76, name |-> "Bottom Corner Hook"],
      [code |-> 82, name |-> "Active Control"],
      [code |-> 84, name |-> "Performance Preservation"],
      [code |-> 86, name |-> "Horizontal Moir"],
      [code |-> 88, name |-> "Vertical Moir"],
      [code |-> 89, name |-> "6 Axis Saturation Control: Red"],
      [code |-> 90, name |-> "6 Axis Saturation Control: Yellow"],
      [code |-> 91, name |-> "6 Axis Saturation Control: Green"],
      [code |-> 92, name |-> "6 Axis Saturation Control: Cyan"],
      [code |-> 93, name |-> "6 Axis Saturation Control: Blue"],
      [code |-> 94, name |-> "6 Axis Saturation Control: Magenta"],
      [code |-> 96, name |-> "Input Select"],
      [code |-> 98, name |-> "Audio: Speaker Volume"],
      [code |-> 99, name |-> "Speaker Select"],
      [code |-> 100, name |-> "Audio: Microphone Volume"],
      [code |-> 101, name |-> "Audio: Jack Connection Status"],
      [code |-> 102, name |-> "Ambient Light Sensor"],
      [code |-> 107, name |-> "Backlight Level: White"],
      [code |-> 108, name |-> "Video Black Level: Red"],
      [code |-> 109, name |-> "Backlight Level: Red"],
      [code |-> 110, name |-> "Video Black Level: Green"],
      [code |-> 111, name |-> "Backlight Level: Green"],
      [code |-> 112, name |-> "Video Black Level: Blue"],
      [code |-> 113, name |-> "Backlight Level: Blue"],
      [code |-> 114, name |-> "Gamma"],
      [code |-> 115, name |-> "LUT Size"],
      [code |-> 116, name |-> "Single Point LUT Operation"],
      [code |-> 117, name |-> "Block LUT Operation"],
      [code |-> 118, name |-> "Remote Procedure Call"],
      [code |-> 120, name |-> "Display Identification on Data Operation"],
      [code |-> 124, name |-> "Adjust Zoom"],
      [code |-> 130, name |-> "Horizontal Mirror (Flip)"],
      [code |-> 132, name |-> "Vertical Mirror (Flip)"],
      [code |-> 134, name |-> "Display Scaling"],
      [code |-> 135, name |-> "Sharpness"],
      [code |-> 136, name |-> "Velocity Scan Modulation"],
      [code |-> 138, name |-> "Color Saturation"],
      [code |-> 139, name |-> "TVChannel Up / Down"],
      [code |-> 140, name |-> "TV-Sharpness"],
      [code |-> 141, name |-> "Audio Mute / Screen Blank"],
      [code |-> 142, name |-> "TV-Contrast"],
      [code |-> 143, name |-> "Audio Treble"],
      [code |-> 144, name |-> "Hue"],
      [code |-> 145, name |-> "Audio Bass"],
      [code |-> 146, name |-> "TV-Black Level / Luminance"],
      [code |-> 147, name |-> "Audio Balance L / R"],
      [code |-> 148, name |-> "Audio Processor Mode"],
      [code |-> 149, name |-> "Window Position (TL_X)"],
      [code |-> 150, name |-> "Window Position (TL_Y)"],
      [code |-> 151, name |-> "Window Position (BR_X)"],
      [code |-> 152, name |-> "Window Position (BR_Y)"],
      [code |-> 154, name |-> "Window Background"],
      [code |-> 155, name |-> "6 Axis Hue Control: Red"],
      [code |-> 156, name |-> "6 Axis Hue Control: Yellow"],
      [code |-> 157, name |-> "6 Axis Hue Control: Green"],
      [code |-> 158, name |-> "6 Axis Hue Control: Cyan"],
      [code |-> 159, name |-> "6 Axis Hue Control: Blue"],
      [code |-> 160, name |-> "6 Axis Hue Control: Magenta"],
      [code |-> 162, name |-> "Auto Setup On / Off"],
      [code |-> 164, name |-> "Window Mask Control"],
      [code |-> 165, name |-> "Window Select"],
      [code |-> 166, name |-> "Window Size"],
      [code |-> 167, name |-> "Window Transparency"],
      [code |-> 170, name |-> "Screen Orientation"],
      [code |-> 172, name |-> "Horizontal Frequency"],
      [code |-> 174, name |-> "Vertical Frequency"],
      [code |-> 176, name |-> "Settings"],
      [code |-> 178, name |-> "Flat Panel Sub-Pixel Layout"],
      [code |-> 180, name |-> "Source Timing Mode"],
      [code |-> 181, name |-> "Source Color Coding"],
      [code |-> 182, name |-> "Display Technology Type"],
      [code |-> 183, name |-> "Monitor Status"],
      [code |-> 184, name |-> "Packet Count"],
      [code |-> 185, name |-> "Monitor X Origin"],
      [code |-> 186, name |-> "Monitor Y Origin"],
      [code |-> 187, name |-> "Header Error Count"],
      [code |-> 188, name |-> "Body CRC Error Count"],
      [code |-> 189, name |-> "Client ID"],
      [code |-> 190, name |-> "Link Control"],
      [code |-> 192, name |-> "Display Usage Time"],
      [code |-> 194, name |-> "Display Descriptor Length"],
      [code |-> 195, name |-> "Transmit Display Descriptor"],
      [code |-> 196, name |-> "Enable Display of Display Descriptor"],
      [code |-> 198, name |-> "Application Enable Key"],
      [code |-> 199, name |-> "Display Enable Key"],
      [code |-> 200, name |-> "Display Controller ID"],
      [code |-> 201, name |-> "Display Firmware Level"],
      [code |-> 202, name |-> "OSD / Button Control"],
      [code |-> 204, name |-> "OSD Language"],
      [code |-> 205, name |-> "Status Indicators (Host)"],
      [code |-> 206, name |-> "Auxiliary Display Size"],
      [code |-> 207, name |-> "Auxiliary Display Data"],
      [code |-> 208, name |-> "Output Select"],
      [code |-> 210, name |-> "Asset Tag"],
      [code |-> 212, name |-> "Stereo Video Mode"],
      [code |-> 214, name |-> "Power Mode"],
      [code |-> 215, name |-> "Auxiliary Power Output"],
      [code |-> 218, name |-> "Scan Mode"],
      [code |-> 219, name |-> "Image Mode"],
      [code |-> 220, name |-> "Display Application"],
      [code |-> 222, name |-> "Scratch Pad"],
      [code |-> 223, name |-> "VCP Version"],
      [code |-> 224, name |-> "OEM specific"],
      [code |-> 225, name |-> "OEM specific"],
      [code |-> 226, name |-> "OEM specific"],
      [code |-> 227, name |-> "OEM specific"],
      [code |-> 228, name |-> "OEM specific"],
      [code |-> 229, name |-> "OEM specific"],
      [code |-> 230, name |-> "OEM specific"],
      [code |-> 231, name |-> "OEM specific"],
      [code |-> 232, name |-> "OEM specific"],
      [code |-> 233, name |-> "OEM specific"],
      [code |-> 234, name |-> "OEM specific"],
      [code |-> 235, name |-> "OEM specific"],
      [code |-> 236, name |-> "OEM specific"],
      [code |-> 237, name |-> "OEM specific"],
      [code |-> 238, name |-> "OEM specific"],
      [code |-> 239, name |-> "OEM specific"],
      [code |-> 240, name |-> "OEM specific"],
      [code |-> 241, name |-> "OEM specific"],
      [code |-> 242, name |-> "OEM specific"],
      [code |-> 243, name |-> "OEM specific"],
      [code |-> 244, name |-> "OEM specific"],
      [code |-> 245, name |-> "OEM specific"],
      [code |-> 246, name |-> "OEM specific"],
      [code |-> 247, name |-> "OEM specific"],
      [code |-> 248, name |-> "OEM specific"],
      [code |-> 249, name |-> "OEM specific"],
      [code |-> 250, name |-> "OEM specific"],
      [code |-> 251, name |-> "OEM specific"],
      [code |-> 252, name |-> "OEM specific"],
      [code |-> 253, name |-> "OEM specific"],
      [code |-> 254, name |-> "OEM specific"],
      [code |-> 255, name |-> "OEM specific"]
    >>

\* Mutant of get_vcp_code_info: the table is taken for one with a slot per
\* code, KNOWN_VCP_CODES.get(code as usize).
get_vcp_code_info_indexed(code) ==
    IF code + 1 \in DOMAIN KNOWN_VCP_CODES
    THEN Some(KNOWN_VCP_CODES[code + 1])
    ELSE None

\* get_vcp_code_info: KNOWN_VCP_CODES.iter().find(|info| info.code == code)
get_vcp_code_info(code) ==
    LET found == { i \in DOMAIN KNOWN_VCP_CODES :
                     KNOWN_VCP_CODES[i].code = code }
    IN IF found = { } THEN None
       ELSE Some(KNOWN_VCP_CODES[CHOOSE i \in found : \A j \in found : i <= j])

\* ------------------------------------------------------------------------
\* The library driven directly: a front end holds one PhysicalMonitor and a
\* VcpMonitor on its handle, and calls their methods one after the other
\* ------------------------------------------------------------------------

\* u8 codes and u32 values a caller may pass (100 is the maximum the
\* transport reports for a feature, 2147483647 stands for the large values).
LibCodes == { 0, 16, 255 }

LibValues == { 0, 100, 101, 2147483647 }

\* A transport call is logged with its arguments and with what the transport
\* answered.
Wire(log, fn, handle, a, reply) ==
    Append(log, [fn |-> fn, handle |-> handle, args |-> a, reply |-> reply])

InitLib ==
    /\ pc = "lib"
    /\ cmd = ""
    /\ args = None
    /\ call = None
    /\ enumerator = << >>
    /\ oi = 0
    /\ physical_monitors = << >>
    /\ pi = 0
    /\ monitors = << >>
    /\ iter = << >>
    /\ \E h \in Handles :
          /\ mon = Some(PhysicalMonitorNew(
                            1, [h_physical_monitor |-> h,
                                description |-> << "A" >>], 1))
          /\ vcp_mon = Some(VcpMonitorNew(h))
    /\ ret = None
    /\ exit = None
    /\ printed = << >>
    /\ warnings = 0
    /\ released = [h \in Handles |-> 0]
    /\ nextHandle = 1
    /\ reported = None
    /\ queried = << >>
    /\ attempts = << >>
    /\ enumerated = << >>
    /\ calls = << >>
    /\ op = None
    /\ wire = << >>
    /\ returned = None
    /\ firmware = { }
    /\ next_code = 0
    /\ features = << >>
    /\ objects = << >>
    /\ threads = << >>
    /\ transport = << >>

\* What a direct call leaves alone.
cli_state ==
    << cmd, args, call, enum_locals, monitors, iter, mon, vcp_mon, ret, exit,
       printed, released, os_state, enumerated, calls, par_locals >>

\* The function `name` was called with the arguments `a`, issued the transport
\* calls `log` and returned `res`.
lib_return(name, a, log, res) ==
    /\ op' = Some([fn |-> name, args |-> a])
    /\ wire' = log
    /\ returned' = Some(res)
    /\ pc' = "lib_ret"
    /\ UNCHANGED << cli_state, firmware, next_code, features >>

\* The caller has taken the result and is about to make its next call.
lib_next ==
    /\ pc = "lib_ret"
    /\ op' = None
    /\ wire' = << >>
    /\ returned' = None
    /\ firmware' = { }
    /\ next_code' = 0
    /\ features' = << >>
    /\ pc' = "lib"
    /\ UNCHANGED cli_state

\* vcp_mon.get_vcp_feature(vcp_code)
lib_get_vcp_feature ==
    /\ pc = "lib"
    /\ \E vcp_code \in LibCodes, r \in VcpReplies :
          lib_return("get_vcp_feature", << vcp_code >>,
                     Wire(<< >>, "GetVCPFeatureAndVCPFeatureReply",
                          vcp_mon[1].handle, << vcp_code >>, r),
                     VcpMonitor_get_vcp_feature(vcp_code, r))

\* Mutant of lib_set_vcp_feature: a value above the feature's maximum is
\* refused without a transport call.
lib_set_vcp_feature_validating ==
    /\ pc = "lib"
    /\ \E vcp_code \in LibCodes, value \in LibValues, r \in BoolResults :
          IF value > 100
          THEN lib_return("set_vcp_feature", << vcp_code, value >>, << >>,
                          Unsupported("value out of range"))
          ELSE lib_return("set_vcp_feature", << vcp_code, value >>,
                          Wire(<< >>, "SetVCPFeature", vcp_mon[1].handle,
                               << vcp_code, value >>, r),
                          VcpMonitor_set_vcp_feature(r))

\* vcp_mon.set_vcp_feature(vcp_code, value)
lib_set_vcp_feature ==
    /\ pc = "lib"
    /\ \E vcp_code \in LibCodes, value \in LibValues, r \in BoolResults :
          lib_return("set_vcp_feature", << vcp_code, value >>,
                     Wire(<< >>, "SetVCPFeature", vcp_mon[1].handle,
                          << vcp_code, value >>, r),
                     VcpMonitor_set_vcp_feature(r))

\* What GetMonitorBrightness and GetMonitorContrast may answer to a direct
\* call: the three values are what the monitor says, and nothing makes the
\* current one lie between the other two.
LibRangeReplies ==
    { [result |-> b, min |-> t[1], current |-> t[2], max |-> t[3]]
        : b \in BoolResults,
          t \in { << 0, 0, 0 >>, << 0, 50, 100 >>, << 0, 150, 100 >>,
                  << 10, 5, 100 >> } }

\* mon.get_brightness()
lib_get_brightness ==
    /\ pc = "lib"
    /\ \E r \in LibRangeReplies :
          lib_return("get_brightness", << >>,
                     Wire(<< >>, "GetMonitorBrightness", mon[1].handle,
                          << >>, r),
                     PhysicalMonitor_get_brightness(r))

\* mon.set_brightness(level)
lib_set_brightness ==
    /\ pc = "lib"
    /\ \E level \in LibValues, r \in BoolResults :
          lib_return("set_brightness", << level >>,
                     Wire(<< >>, "SetMonitorBrightness", mon[1].handle,
                          << level >>, r),
                     PhysicalMonitor_set_brightness(r))

\* mon.get_contrast()
lib_get_contrast ==
    /\ pc = "lib"
    /\ \E r \in LibRangeReplies :
          lib_return("get_contrast", << >>,
                     Wire(<< >>, "GetMonitorContrast", mon[1].handle,
                          << >>, r),
                     PhysicalMonitor_get_contrast(r))

\* mon.set_contrast(level)
lib_set_contrast ==
    /\ pc = "lib"
    /\ \E level \in LibValues, r \in BoolResults :
          lib_return("set_contrast", << level >>,
                     Wire(<< >>, "SetMonitorContrast", mon[1].handle,
                          << level >>, r),
                     PhysicalMonitor_set_contrast(r))

\* Mutant of lib_save_settings: a failed call is tried once more.
lib_save_settings_retrying ==
    /\ pc = "lib"
    /\ \E r1 \in BoolResults, r2 \in BoolResults :
          LET first == Wire(<< >>, "SaveCurrentMonitorSettings",
                            vcp_mon[1].handle, << >>, r1)
          IN IF r1 = 0
             THEN lib_return("save_settings", << >>,
                             Wire(first, "SaveCurrentMonitorSettings",
                                  vcp_mon[1].handle, << >>, r2),
                             VcpMonitor_save_settings(r2))
             ELSE lib_return("save_settings", << >>, first,
                             VcpMonitor_save_settings(r1))

\* vcp_mon.save_settings()
lib_save_settings ==
    /\ pc = "lib"
    /\ \E r \in BoolResults :
          lib_return("save_settings", << >>,
                     Wire(<< >>, "SaveCurrentMonitorSettings",
                          vcp_mon[1].handle, << >>, r),
                     VcpMonitor_save_settings(r))

\* vcp_mon.restore_factory_defaults()
lib_restore_factory_defaults ==
    /\ pc = "lib"
    /\ \E r \in BoolResults :
          lib_return("restore_factory_defaults", << >>,
                     Wire(<< >>, "RestoreMonitorFactoryDefaults",
                          vcp_mon[1].handle, << >>, r),
                     VcpMonitor_restore_factory_defaults(r))

\* vcp_mon.restore_factory_color_defaults()
lib_restore_factory_color_defaults ==
    /\ pc = "lib"
    /\ \E r \in BoolResults :
          lib_return("restore_factory_color_defaults", << >>,
                     Wire(<< >>, "RestoreMonitorFactoryColorDefaults",
                          vcp_mon[1].handle, << >>, r),
                     VcpMonitor_restore_factory_color_defaults(r))

\* vcp::get_vcp_code_info(code), for every u8.
lib_get_vcp_code_info ==
    /\ pc = "lib"
    /\ \E c \in 0 .. LastCode :
          lib_return("get_vcp_code_info", << c >>, << >>,
                     get_vcp_code_info(c))

\* What GetCapabilitiesStringLength may answer to a direct call; a failure may
\* have written a length or not.
LibCapLengthReplies ==
    { [result |-> r, length |-> n] : r \in BoolResults, n \in { 0, 1, 3 } }

\* The bytes a capability buffer may hold: NUL, 'A', and 0xC8, which with
\* none of these bytes after it is no UTF-8 sequence.
LibCapBytes == { 0, 65, 200 }

\* What CapabilitiesRequestAndCapabilitiesReply may answer for a buffer of
\* `length` bytes; a failure may have written to the buffer or not.
LibCapStringReplies(length) ==
    { [result |-> r, buffer |-> b]
        : r \in BoolResults, b \in [1 .. length -> LibCapBytes] }

\* Mutant of lib_caps_length: the result of the length query is not looked
\* at.
lib_caps_length_unchecked ==
    /\ pc = "lib"
    /\ \E r1 \in LibCapLengthReplies :
          /\ op' = Some([fn |-> "get_capabilities", args |-> << >>])
          /\ wire' = Wire(<< >>, "GetCapabilitiesStringLength",
                          vcp_mon[1].handle, << >>, r1)
          /\ pc' = "caps"
          /\ UNCHANGED << cli_state, returned, firmware, next_code,
                          features >>

\* vcp_mon.get_capabilities(), phase 1: GetCapabilitiesStringLength and the
\* early return when it fails.
lib_caps_length ==
    /\ pc = "lib"
    /\ \E r1 \in LibCapLengthReplies :
          LET log == Wire(<< >>, "GetCapabilitiesStringLength",
                          vcp_mon[1].handle, << >>, r1)
          IN IF r1.result = 0
             THEN lib_return("get_capabilities", << >>, log,
                             VcpMonitor_get_capabilities(r1, r1))
             ELSE /\ op' = Some([fn |-> "get_capabilities", args |-> << >>])
                  /\ wire' = log
                  /\ pc' = "caps"
                  /\ UNCHANGED << cli_state, returned, firmware, next_code,
                                  features >>

\* vcp_mon.get_capabilities(), phase 2: vec![0u8; length as usize], the
\* request into it (logged with buffer.len() and length) and the String made
\* of the buffer.
lib_caps_request ==
    /\ pc = "caps"
    /\ LET r1 == wire[1].reply
       IN \E r2 \in LibCapStringReplies(r1.length) :
             lib_return("get_capabilities", << >>,
                        Wire(wire, "CapabilitiesRequestAndCapabilitiesReply",
                             vcp_mon[1].handle,
                             << Len(r2.buffer), r1.length >>, r2),
                        VcpMonitor_get_capabilities(
                            [result |-> 1, length |-> r1.length], r2))

\* The monitors a direct scan may meet, by the codes they answer.
LibFirmwares ==
    ScanSupported
    \cup { { 0 }, { LastCode }, (0 .. LastCode) \ { 16 }, 128 .. LastCode }
    \cup { { c \in 0 .. LastCode : c % 2 = 0 } }

\* vcp_mon.scan_vcp_features(): let mut features = Vec::new(); and the first
\* value of the range.
lib_scan_start ==
    /\ pc = "lib"
    /\ firmware' \in LibFirmwares
    /\ op' = Some([fn |-> "scan_vcp_features", args |-> << >>])
    /\ next_code' = 0
    /\ features' = << >>
    /\ wire' = << >>
    /\ pc' = "scan"
    /\ UNCHANGED << cli_state, returned >>

\* Mutant of lib_scan_step: the scan ends at the first code that fails,
\* self.get_vcp_feature(code)? in a function returning a Result.
lib_scan_step_stopping ==
    /\ pc = "scan"
    /\ next_code <= LastCode
    /\ LET r == ScanReply(firmware, next_code)
           f == VcpMonitor_get_vcp_feature(next_code, r)
       IN /\ wire' = Wire(wire, "GetVCPFeatureAndVCPFeatureReply",
                          vcp_mon[1].handle, << next_code >>, r)
          /\ features' = IF f.res.ok THEN Append(features, f.response[1])
                         ELSE features
          /\ next_code' = IF f.res.ok THEN next_code + 1 ELSE LastCode + 1
    /\ UNCHANGED << cli_state, op, returned, firmware, pc >>

\* Mutant of lib_scan_step: features.insert(0, response).
lib_scan_step_prepending ==
    /\ pc = "scan"
    /\ next_code <= LastCode
    /\ LET r == ScanReply(firmware, next_code)
           f == VcpMonitor_get_vcp_feature(next_code, r)
       IN /\ wire' = Wire(wire, "GetVCPFeatureAndVCPFeatureReply",
                          vcp_mon[1].handle, << next_code >>, r)
          /\ features' = IF f.res.ok THEN << f.response[1] >> \o features
                         ELSE features
    /\ next_code' = next_code + 1
    /\ UNCHANGED << cli_state, op, returned, firmware, pc >>

\* One turn of `for code in 0u8..=255u8`: self.get_vcp_feature(code), and
\* features.push(response) if it is Ok.
lib_scan_step ==
    /\ pc = "scan"
    /\ next_code <= LastCode
    /\ LET r == ScanReply(firmware, next_code)
           f == VcpMonitor_get_vcp_feature(next_code, r)
       IN /\ wire' = Wire(wire, "GetVCPFeatureAndVCPFeatureReply",
                          vcp_mon[1].handle, << next_code >>, r)
          /\ features' = IF f.res.ok THEN Append(features, f.response[1])
                         ELSE features
    /\ next_code' = next_code + 1
    /\ UNCHANGED << cli_state, op, returned, firmware, pc >>

\* The range is exhausted: scan_vcp_features returns features.
lib_scan_return ==
    /\ pc = "scan"
    /\ next_code > LastCode
    /\ returned' = Some(features)
    /\ features' = << >>
    /\ pc' = "lib_ret"
    /\ UNCHANGED << cli_state, op, wire, firmware, next_code >>

NextLib ==
    \/ lib_next
    \/ lib_get_vcp_feature
    \/ lib_set_vcp_feature
    \/ lib_get_brightness
    \/ lib_set_brightness
    \/ lib_get_contrast
    \/ lib_set_contrast
    \/ lib_save_settings
    \/ lib_restore_factory_defaults
    \/ lib_restore_factory_color_defaults
    \/ lib_get_vcp_code_info
    \/ lib_caps_length
    \/ lib_caps_request
    \/ lib_scan_start
    \/ lib_scan_step
    \/ lib_scan_return

SpecLib == InitLib /\ [][NextLib]_vars

\* The loop of scan_vcp_features is straight-line code around a blocking call
\* that returns: a scan that can take its next turn, or return, does.
SpecLibLive ==
    /\ SpecLib
    /\ WF_vars(lib_scan_step)
    /\ WF_vars(lib_scan_return)

\* ------------------------------------------------------------------------
\* Two threads, each driving its own PhysicalMonitor and VcpMonitor
\* ------------------------------------------------------------------------

Threads == { 1, 2 }

\* The values a thread may set a feature to.
ParValues == { 10, 20 }

\* Mutant of VcpMonitor_self_handle: the handle is a static that the first
\* VcpMonitor::new set.
VcpMonitor_self_handle_shared(t) == objects[1].vcp_mon.handle

\* self.handle in the methods of VcpMonitor (the field of the struct).
VcpMonitor_self_handle(t) == objects[t].vcp_mon.handle

\* self.handle in the methods of PhysicalMonitor.
PhysicalMonitor_self_handle(t) == objects[t].mon.handle

\* Each thread has constructed a PhysicalMonitor on an endpoint of its own and
\* a VcpMonitor on its handle; the monitors hold the feature value 0.
InitPar ==
    /\ pc = "par"
    /\ cmd = ""
    /\ args = None
    /\ call = None
    /\ enumerator = << >>
    /\ oi = 0
    /\ physical_monitors = << >>
    /\ pi = 0
    /\ monitors = << >>
    /\ iter = << >>
    /\ mon = None
    /\ vcp_mon = None
    /\ ret = None
    /\ exit = None
    /\ printed = << >>
    /\ warnings = 0
    /\ released = [h \in Handles |-> 0]
    /\ nextHandle = 1
    /\ reported = None
    /\ queried = << >>
    /\ attempts = << >>
    /\ enumerated = << >>
    /\ calls = << >>
    /\ op = None
    /\ wire = << >>
    /\ returned = None
    /\ firmware = { }
    /\ next_code = 0
    /\ features = << >>
    /\ \E hs \in [Threads -> Handles] :
          /\ hs[1] # hs[2]
          /\ objects =
                [t \in Threads |->
                   LET m == PhysicalMonitorNew(
                                t, [h_physical_monitor |-> hs[t],
                                    description |-> << "A" >>], 1)
                   IN [mon     |-> m,
                       vcp_mon |-> VcpMonitorNew(PhysicalMonitor_handle(m))]]
          /\ threads =
                [t \in Threads |->
                   [pc |-> "idle", fn |-> "", args |-> << >>, reply |-> None,
                    returned |-> None, bound |-> hs[t], written |-> 0]]
    /\ transport = [h \in Handles |->
                      [value |-> 0, callers |-> { }, last |-> None]]

\* What a method of one thread's object leaves alone.
par_frame == << pc, cmd, args, call, enum_locals, monitors, iter, mon, vcp_mon,
               ret, exit, printed, released, os_state, enumerated, calls,
               lib_locals, objects >>

\* Thread t is in the method `fn` called with the arguments `a`: the transport
\* was called with the handle `handle` and answered `reply`; `written` is the
\* value the thread has last set with success.
par_called(t, fn, a, handle, reply, written) ==
    /\ threads' = [threads EXCEPT ![t].pc = "called", ![t].fn = fn,
                                  ![t].args = a, ![t].reply = Some(reply),
                                  ![t].written = written]
    /\ UNCHANGED par_frame

\* The transport has answered a call that carried `handle`, made by thread t;
\* the monitor of that handle now holds `value`.
par_transport(t, handle, reply, value) ==
    [transport EXCEPT ![handle] = [value   |-> value,
                                   callers |-> @.callers \cup { t },
                                   last    |-> Some(reply)]]

\* vcp_mon.get_vcp_feature(vcp_code) up to the answer of
\* GetVCPFeatureAndVCPFeatureReply(self.handle, ..), which reports the value
\* the monitor of that handle holds.
par_get_vcp_feature(t) ==
    /\ threads[t].pc = "idle"
    /\ \E vcp_code \in CodeArgs, result \in BoolResults :
          LET handle == VcpMonitor_self_handle(t)
              r == IF result = 0
                   THEN [result |-> 0, pvct |-> 0, current |-> 0, maximum |-> 0]
                   ELSE [result |-> result, pvct |-> 0,
                         current |-> transport[handle].value, maximum |-> 100]
          IN /\ transport' = par_transport(t, handle, r, transport[handle].value)
             /\ par_called(t, "get_vcp_feature", << vcp_code >>, handle, r,
                           threads[t].written)

\* vcp_mon.set_vcp_feature(vcp_code, value) up to the answer of
\* SetVCPFeature(self.handle, ..); a success leaves the value in the monitor
\* of that handle.
par_set_vcp_feature(t) ==
    /\ threads[t].pc = "idle"
    /\ \E vcp_code \in CodeArgs, value \in ParValues, result \in BoolResults :
          LET handle == VcpMonitor_self_handle(t)
          IN /\ transport' = par_transport(t, handle, result,
                                 IF result = 0 THEN transport[handle].value
                                 ELSE value)
             /\ par_called(t, "set_vcp_feature", << vcp_code, value >>, handle,
                           result,
                           IF result = 0 THEN threads[t].written ELSE value)

\* mon.get_brightness() up to the answer of GetMonitorBrightness(self.handle,
\* ..).
par_get_brightness(t) ==
    /\ threads[t].pc = "idle"
    /\ \E r \in RangeReplies :
          LET handle == PhysicalMonitor_self_handle(t)
          IN /\ transport' = par_transport(t, handle, r, transport[handle].value)
             /\ par_called(t, "get_brightness", << >>, handle, r,
                           threads[t].written)

\* mon.set_brightness(level) up to the answer of
\* SetMonitorBrightness(self.handle, level).
par_set_brightness(t) ==
    /\ threads[t].pc = "idle"
    /\ \E level \in ValueArgs, result \in BoolResults :
          LET handle == PhysicalMonitor_self_handle(t)
          IN /\ transport' = par_transport(t, handle, result,
                                           transport[handle].value)
             /\ par_called(t, "set_brightness", << level >>, handle, result,
                           threads[t].written)

\* What the method `fn` makes of the transport's answer.
par_result(fn, a, reply) ==
    CASE fn = "get_vcp_feature" -> VcpMonitor_get_vcp_feature(a[1], reply)
      [] fn = "set_vcp_feature" -> VcpMonitor_set_vcp_feature(reply)
      [] fn = "get_brightness"  -> PhysicalMonitor_get_brightness(reply)
      [] fn = "set_brightness"  -> PhysicalMonitor_set_brightness(reply)

\* The rest of the method: the Result made from the out-parameters and the
\* BOOL on the thread's own stack.
par_return(t) ==
    /\ threads[t].pc = "called"
    /\ LET fn  == threads[t].fn
           a   == threads[t].args
           res == par_result(fn, a, threads[t].reply[1])
       IN threads' = [threads EXCEPT ![t].pc = "returned",
                                     ![t].returned = Some(res)]
    /\ UNCHANGED << par_frame, transport >>

\* The thread has taken the result and is about to make its next call.
par_next(t) ==
    /\ threads[t].pc = "returned"
    /\ threads' = [threads EXCEPT ![t].pc = "idle", ![t].fn = "",
                                  ![t].args = << >>, ![t].reply = None,
                                  ![t].returned = None]
    /\ UNCHANGED << par_frame, transport >>

NextPar ==
    \E t \in Threads :
       \/ par_get_vcp_feature(t)
       \/ par_set_vcp_feature(t)
       \/ par_get_brightness(t)
       \/ par_set_brightness(t)
       \/ par_return(t)
       \/ par_next(t)

SpecPar == InitPar /\ [][NextPar]_vars

-----------------------------------------------------------------------------
\* What the properties below speak about.

\* The handles for which PhysicalMonitor::new returned Ok, and those for
\* which it returned an error.
ConstructedHandles ==
    { attempts[i].handle : i \in { j \in DOMAIN attempts : attempts[j].ok } }

FailedHandles ==
    { attempts[i].handle : i \in { j \in DOMAIN attempts : ~ attempts[j].ok } }

\* The PhysicalMonitor values alive: in the Vec of enumerate_monitors, in the
\* iterator of the selection functions, in `mon` of a command.
Owners == monitors \o iter \o mon

HandlesOf(ms) == [ i \in DOMAIN ms |-> ms[i].handle ]

OwnedHandles == { Owners[i].handle : i \in DOMAIN Owners }

RECURSIVE ReleasesUpTo(_)
ReleasesUpTo(h) == IF h = 0 THEN 0 ELSE released[h] + ReleasesUpTo(h - 1)

TotalReleases == ReleasesUpTo(MaxHandles)

\* Some get_physical_monitors call of the enumeration returned an error.
GpmFailed == \E i \in DOMAIN queried : ~ queried[i].ok

OkAttempts == SelectSeq(attempts, LAMBDA a : a.ok)

-----------------------------------------------------------------------------
\* C1: every successfully constructed PhysicalMonitor has its handle released
\* exactly once by the time the operation that created it and its caller
\* have finished, on every exit path: a constructed handle is unreleased
\* exactly while a live PhysicalMonitor owns it, is never released twice, and
\* when the command has finished (normally or by an early return) no owner is
\* left and every constructed handle has been released once.
C1_ReleasedExactlyOnce ==
    /\ \A h \in Handles : released[h] <= 1
    /\ \A h \in ConstructedHandles :
          released[h] = IF h \in OwnedHandles THEN 0 ELSE 1
    /\ pc = "done" =>
          /\ Owners = << >>
          /\ \A h \in ConstructedHandles : released[h] = 1

\* A command that selected a monitor among several and then left by the early
\* return of a failed transport call.
C1_Witness ==
    /\ pc = "done"
    /\ ~ exit[1].ok
    /\ calls # << >>
    /\ Cardinality(ConstructedHandles) >= 2
    /\ \A h \in ConstructedHandles : released[h] = 1

\* C2: the release is never invoked for an endpoint whose construction
\* returned an error, and the number of releases equals the number of
\* successful constructions once the command has finished (and never exceeds
\* it before).
C2_NoReleaseOfFailedConstruction ==
    /\ \A h \in Handles \ ConstructedHandles : released[h] = 0
    /\ TotalReleases <= Cardinality(ConstructedHandles)
    /\ pc = "done" => TotalReleases = Cardinality(ConstructedHandles)

\* A finished command whose enumeration saw both a failed and a successful
\* construction.
C2_Witness ==
    /\ pc = "done"
    /\ FailedHandles # { }
    /\ ConstructedHandles # { }
    /\ TotalReleases = Cardinality(ConstructedHandles)
    /\ \A h \in FailedHandles : released[h] = 0

\* C3: no two live PhysicalMonitor owners hold the same handle, and no handle
\* the OS returned is given to PhysicalMonitor::new twice.
C3_UniqueOwner ==
    /\ \A i, j \in DOMAIN Owners :
          i # j => Owners[i].handle # Owners[j].handle
    /\ \A i, j \in DOMAIN attempts :
          i # j => attempts[i].handle # attempts[j].handle

\* Several owners alive at once, after the Vec moved into the iterator of a
\* selection function.
C3_Witness ==
    /\ pc = "find"
    /\ Len(iter) >= 2
    /\ monitors = << >>

\* C4: a VcpMonitor never outlives the PhysicalMonitor whose handle it
\* borrowed: every transport call of a command was made on a handle not yet
\* released, and while a VcpMonitor exists the PhysicalMonitor of the same
\* handle is alive and unreleased.
C4_CallsBeforeRelease ==
    /\ \A i \in DOMAIN calls : calls[i].released = 0
    /\ vcp_mon # None =>
          /\ mon # None
          /\ mon[1].handle = vcp_mon[1].handle
          /\ released[vcp_mon[1].handle] = 0

\* A finished VCP command: its calls were made, and the handle they were made
\* on has been released since.
C4_Witness ==
    /\ pc = "done"
    /\ cmd \in { "GetVcp", "SetVcp", "ScanVcp", "GetCapabilities",
                 "SaveSettings", "ResetDefaults" }
    /\ calls # << >>
    /\ released[calls[1].handle] = 1

\* C5: when the OS reports its outputs and the endpoints of each, and the
\* construction of some endpoint fails, enumerate_monitors returns Ok with
\* exactly the handles of the successful constructions, in output-then-endpoint
\* order, and has printed one warning per failed endpoint.
C5_FailedEndpointSkipped ==
    (pc = "enum_ret" /\ reported # None /\ reported[1] > 0 /\ ~ GpmFailed) =>
        /\ ret[1].ok
        /\ HandlesOf(monitors) = HandlesOf(OkAttempts)
        /\ \A i \in DOMAIN monitors :
              monitors[i].device_name = device_name_of(OkAttempts[i].hmonitor)
        /\ \A i, j \in DOMAIN attempts :
              i < j => /\ attempts[i].hmonitor <= attempts[j].hmonitor
                       /\ attempts[i].handle < attempts[j].handle
        /\ warnings = Len(attempts) - Len(OkAttempts)

\* Two outputs with one endpoint each, the construction for the second output
\* fails: one handle returned, one warning.
C5_Witness ==
    /\ pc = "enum_ret"
    /\ reported = Some(2)
    /\ attempts = << [hmonitor |-> 1, handle |-> 1, ok |-> TRUE],
                     [hmonitor |-> 2, handle |-> 2, ok |-> FALSE] >>
    /\ ret[1].ok
    /\ HandlesOf(monitors) = << 1 >>
    /\ warnings = 1

\* C6 as stated: enumerate_monitors succeeds whenever at least one endpoint
\* was constructed, whatever happens for the other outputs and endpoints.
C6_SucceedsWithOneEndpoint ==
    (pc = "enum_ret" /\ ConstructedHandles # { }) => ret[1].ok

\* C6, amended: enumerate_monitors succeeds whenever at least one endpoint was
\* constructed and no get_physical_monitors call failed, whatever the other
\* constructions did; when a get_physical_monitors call fails, the enumeration
\* returns that error although endpoints were constructed before.
C6_SucceedsUnlessQueryFails ==
    (pc = "enum_ret" /\ ConstructedHandles # { }) =>
        /\ ~ GpmFailed => (ret[1].ok /\ monitors # << >>)
        /\ GpmFailed => (~ ret[1].ok /\ monitors = << >>)

\* An enumeration that returned Ok with one construction failed and another
\* succeeded.
C6_Witness ==
    /\ pc = "enum_ret"
    /\ ConstructedHandles # { }
    /\ FailedHandles # { }
    /\ ~ GpmFailed
    /\ ret[1].ok

EnumerationSucceeded ==
    /\ reported # None
    /\ reported[1] > 0
    /\ ~ GpmFailed

\* The name find_monitor was asked for.
AskedName == args[1].device[1]

\* The indices, in enumeration order, of the monitors a name designates.
NameMatches(name) ==
    { i \in DOMAIN enumerated :
         \/ enumerated[i].monitor.device_name = name
         \/ enumerated[i].monitor.friendly_name = name }

\* The indices of the monitors whose dwFlags has bit 0 set.
PrimaryFlagged == { i \in DOMAIN enumerated : enumerated[i].dwFlags % 2 = 1 }

First(S) == CHOOSE i \in S : \A j \in S : i <= j

FindReturned == pc = "sel_ret" /\ call[1].fn = "find_monitor"

PrimaryReturned == pc = "sel_ret" /\ call[1].fn = "get_primary_monitor"

\* C8: find_monitor(name) returns the first handle, in enumeration order, whose
\* device_name or friendly_name equals the name, and no other.
C8_FindReturnsFirstMatch ==
    (FindReturned /\ EnumerationSucceeded /\ NameMatches(AskedName) # { }) =>
        /\ ret[1].ok
        /\ mon = Some(enumerated[First(NameMatches(AskedName))].monitor)

\* Three monitors, the first does not match, the second and the third do (by
\* friendly name): the second is returned.
C8_Witness ==
    /\ FindReturned
    /\ Len(enumerated) = 3
    /\ NameMatches(AskedName) = { 2, 3 }
    /\ enumerated[2].monitor.device_name # AskedName
    /\ mon = Some(enumerated[2].monitor)

\* C9: when no monitor matches, find_monitor returns MonitorNotFound carrying
\* exactly the name that was asked for, and no monitor.
C9_FindNoMatch ==
    (FindReturned /\ EnumerationSucceeded /\ NameMatches(AskedName) = { }) =>
        /\ ret[1] = Err("MonitorNotFound", AskedName)
        /\ mon = None

\* "nonexistent" asked of a non-empty set of monitors.
C9_Witness ==
    /\ FindReturned
    /\ enumerated # << >>
    /\ AskedName = << "nonexistent" >>
    /\ ret[1] = Err("MonitorNotFound", << "nonexistent" >>)

\* C10: get_primary_monitor returns the first handle, in enumeration order,
\* whose is_primary is set, which is bit 0 of the dwFlags the OS gave for its
\* output, and MonitorNotFound when no handle is primary.
C10_PrimaryIsFirstFlagged ==
    (PrimaryReturned /\ EnumerationSucceeded) =>
        /\ \A i \in DOMAIN enumerated :
              enumerated[i].monitor.is_primary <=> i \in PrimaryFlagged
        /\ IF PrimaryFlagged # { }
           THEN /\ ret[1].ok
                /\ mon = Some(enumerated[First(PrimaryFlagged)].monitor)
           ELSE /\ ~ ret[1].ok
                /\ ret[1].kind = "MonitorNotFound"
                /\ mon = None

\* Three monitors, the first with another flag than bit 0, the second and the
\* third primary: the second is returned.
C10_Witness ==
    /\ PrimaryReturned
    /\ Len(enumerated) = 3
    /\ enumerated[1].dwFlags = 2
    /\ PrimaryFlagged = { 2, 3 }
    /\ mon = Some(enumerated[2].monitor)

-----------------------------------------------------------------------------
\* What the properties of the library speak about.

\* The function `fn` has returned to the caller of the library.
LibReturned(fn) == pc = "lib_ret" /\ op # None /\ op[1].fn = fn

\* The BOOL a logged transport call answered.
ReplyResult(w) ==
    IF w.fn \in { "GetVCPFeatureAndVCPFeatureReply", "GetMonitorBrightness",
                  "GetMonitorContrast", "GetCapabilitiesStringLength",
                  "CapabilitiesRequestAndCapabilitiesReply" }
    THEN w.reply.result
    ELSE w.reply

\* The Result in what a function returned.
ResultOf(fn, x) ==
    IF fn \in { "get_vcp_feature", "get_brightness", "get_contrast",
                "get_capabilities" }
    THEN x.res
    ELSE x

\* The functions that are one transport call, and that call.
SingleCall ==
    [ get_vcp_feature  |-> "GetVCPFeatureAndVCPFeatureReply",
      set_vcp_feature  |-> "SetVCPFeature",
      get_brightness   |-> "GetMonitorBrightness",
      set_brightness   |-> "SetMonitorBrightness",
      get_contrast     |-> "GetMonitorContrast",
      set_contrast     |-> "SetMonitorContrast",
      save_settings    |-> "SaveCurrentMonitorSettings",
      restore_factory_defaults |-> "RestoreMonitorFactoryDefaults",
      restore_factory_color_defaults |-> "RestoreMonitorFactoryColorDefaults" ]

SingleCallReturned == pc = "lib_ret" /\ op # None /\ op[1].fn \in DOMAIN SingleCall

-----------------------------------------------------------------------------
\* C11: when the transport reports success with (type, current, maximum),
\* get_vcp_feature(code) returns a response with the requested code, exactly
\* the reported current and maximum values, and code_type SetParameter if the
\* type is 0 and Momentary for every other type.
C11_GetFeatureMapsReply ==
    (LibReturned("get_vcp_feature") /\ wire[1].reply.result # 0) =>
        LET r == wire[1].reply
        IN /\ returned[1].res.ok
           /\ returned[1].response =
                 Some([vcp_code      |-> op[1].args[1],
                       current_value |-> r.current,
                       maximum_value |-> r.maximum,
                       code_type     |-> IF r.pvct = 0 THEN "SetParameter"
                                         ELSE "Momentary"])

\* Code 0x10 answered with a type that is neither 0 nor 1, current 50 and
\* maximum 100: {0x10, 50, 100, Momentary}.
C11_Witness ==
    /\ LibReturned("get_vcp_feature")
    /\ op[1].args = << 16 >>
    /\ wire[1].reply = [result |-> 1, pvct |-> 2, current |-> 50,
                        maximum |-> 100]
    /\ returned[1].response =
          Some([vcp_code |-> 16, current_value |-> 50, maximum_value |-> 100,
                code_type |-> "Momentary"])

\* C12: a failed get_vcp_feature yields VcpNotSupported and nothing else; a
\* failed set_vcp_feature, get/set_brightness, get/set_contrast,
\* save_settings, restore_factory_defaults or restore_factory_color_defaults
\* yields UnsupportedOperation; no operation, get_capabilities included,
\* returns Ok when a transport call of it reported failure.
C12_ErrorTaxonomy ==
    /\ SingleCallReturned /\ ReplyResult(wire[1]) = 0 =>
          LET res == ResultOf(op[1].fn, returned[1])
          IN /\ ~ res.ok
             /\ res.kind = IF op[1].fn = "get_vcp_feature"
                           THEN "VcpNotSupported"
                           ELSE "UnsupportedOperation"
             /\ op[1].fn = "get_vcp_feature" =>
                   returned[1] = [res |-> Err("VcpNotSupported", None),
                                  response |-> None]
    /\ (pc = "lib_ret" /\ op # None
          /\ op[1].fn \in DOMAIN SingleCall \cup { "get_capabilities" }
          /\ \E i \in DOMAIN wire : ReplyResult(wire[i]) = 0) =>
          ~ ResultOf(op[1].fn, returned[1]).ok

\* A feature query the transport rejected.
C12_Witness ==
    /\ LibReturned("get_vcp_feature")
    /\ ReplyResult(wire[1]) = 0
    /\ returned[1].res.kind = "VcpNotSupported"

\* C13: no operation retries: each call of get_vcp_feature, set_vcp_feature,
\* get/set_brightness, get/set_contrast, save_settings,
\* restore_factory_defaults and restore_factory_color_defaults issues exactly
\* one transport call, its own, on the handle, whether it succeeds or fails,
\* and its Result is that of this one call.
C13_OneTransportCall ==
    SingleCallReturned =>
        /\ Len(wire) = 1
        /\ wire[1].fn = SingleCall[op[1].fn]
        /\ wire[1].handle = mon[1].handle
        /\ ResultOf(op[1].fn, returned[1]).ok <=> ReplyResult(wire[1]) # 0

\* save_settings failed on its one call.
C13_Witness ==
    /\ LibReturned("save_settings")
    /\ Len(wire) = 1
    /\ ReplyResult(wire[1]) = 0
    /\ ~ returned[1].ok

\* C14: set_vcp_feature(code, value) validates nothing locally: for every code
\* and value, also above the feature's maximum, it issues the write with
\* exactly that code and value, and its outcome is Ok exactly when the
\* transport reports success.
C14_SetFeatureNoValidation ==
    LibReturned("set_vcp_feature") =>
        /\ Len(wire) = 1
        /\ wire[1].fn = "SetVCPFeature"
        /\ wire[1].args = op[1].args
        /\ returned[1] = IF wire[1].reply = 0
                         THEN Unsupported("SetVCPFeature failed")
                         ELSE Ok

\* A value far above the maximum, written and accepted by the transport.
C14_Witness ==
    /\ LibReturned("set_vcp_feature")
    /\ op[1].args = << 16, 2147483647 >>
    /\ wire[1].args = << 16, 2147483647 >>
    /\ returned[1] = Ok

\* scan_vcp_features is running or has just returned.
ScanCalled == op # None /\ op[1].fn = "scan_vcp_features"

\* What the scan has collected: the Vec while it runs, the value it returned
\* afterwards.
Scanned == IF pc = "lib_ret" THEN returned[1] ELSE features

\* The responses to the calls lo .. hi of the log `w` that succeeded, in the
\* order of the log (the range is halved so that the evaluation stays shallow).
RECURSIVE SucceededIn(_, _, _)
SucceededIn(w, lo, hi) ==
    IF lo > hi THEN << >>
    ELSE IF lo = hi
         THEN IF w[lo].reply.result = 0 THEN << >>
              ELSE << [vcp_code      |-> w[lo].args[1],
                       current_value |-> w[lo].reply.current,
                       maximum_value |-> w[lo].reply.maximum,
                       code_type     |-> IF w[lo].reply.pvct = 0
                                         THEN "SetParameter"
                                         ELSE "Momentary"] >>
         ELSE SucceededIn(w, lo, (lo + hi) \div 2)
              \o SucceededIn(w, (lo + hi) \div 2 + 1, hi)

\* C15: whatever codes the transport answers and rejects, the result of
\* scan_vcp_features (and the Vec at every turn of the loop) is in strictly
\* ascending order of vcp_code, holds no code twice, holds only codes of
\* 0 .. 255 and has at most 256 entries.
C15_ScanResultAscending ==
    ScanCalled =>
        /\ Len(Scanned) <= LastCode + 1
        /\ \A i \in DOMAIN Scanned : Scanned[i].vcp_code \in 0 .. LastCode
        /\ \A i \in 1 .. Len(Scanned) - 1 :
              Scanned[i].vcp_code < Scanned[i + 1].vcp_code
        /\ pc = "lib_ret" =>
              \A i, j \in DOMAIN Scanned :
                 i # j => Scanned[i].vcp_code # Scanned[j].vcp_code

\* A scan of a monitor that rejects one code only: 255 entries.
C15_Witness ==
    /\ LibReturned("scan_vcp_features")
    /\ firmware = (0 .. LastCode) \ { 16 }
    /\ Len(returned[1]) = LastCode
    /\ returned[1][17].vcp_code = 17

\* The queries of a scan so far are those of the codes 0, 1, 2, ... in this
\* order, on the handle, one per code, and what is collected is what the
\* queries that succeeded returned; a scan that has returned made all 256.
C16_ScanOrder ==
    ScanCalled =>
        /\ Len(wire) = IF pc = "scan" THEN next_code ELSE LastCode + 1
        /\ \A i \in DOMAIN wire :
              /\ wire[i].fn = "GetVCPFeatureAndVCPFeatureReply"
              /\ wire[i].handle = vcp_mon[1].handle
              /\ wire[i].args = << i - 1 >>
        /\ Scanned = SucceededIn(wire, 1, Len(wire))

\* C16: scan_vcp_features issues exactly 256 feature queries, one per code, in
\* the order 0, 1, ..., 255, each after the one before has answered, and then
\* returns; a failed query does not stop it, and the result holds an entry for
\* a code exactly if the query of that code succeeded, with the values that
\* query returned.
C16_ScanQueriesEveryCode ==
    /\ [] C16_ScanOrder
    /\ (pc = "scan") ~> LibReturned("scan_vcp_features")

\* A scan of a monitor that rejects every odd code: 256 queries, 128 entries.
C16_Witness ==
    /\ LibReturned("scan_vcp_features")
    /\ firmware = { c \in 0 .. LastCode : c % 2 = 0 }
    /\ Len(wire) = LastCode + 1
    /\ wire[2].reply.result = 0
    /\ Len(returned[1]) = 128

\* get_capabilities has returned after both of its transport calls succeeded.
CapabilitiesRead ==
    /\ LibReturned("get_capabilities")
    /\ Len(wire) = 2
    /\ ReplyResult(wire[1]) # 0
    /\ ReplyResult(wire[2]) # 0

\* A buffer cut before its first NUL, whole if it holds none.
TruncatedAtNul(buffer) ==
    LET nuls == { i \in DOMAIN buffer : buffer[i] = 0 }
    IN IF nuls = { } THEN buffer
       ELSE SubSeq(buffer, 1, (CHOOSE i \in nuls : \A j \in nuls : i <= j) - 1)

\* C17: when both transport phases succeed, get_capabilities returns the
\* content of the filled buffer truncated at its first null byte (the whole
\* buffer when it holds none), every ASCII byte as its character and every
\* byte that is no UTF-8 as U+FFFD.
C17_CapabilitiesTruncatedAtNul ==
    CapabilitiesRead =>
        LET content == TruncatedAtNul(wire[2].reply.buffer)
        IN /\ returned[1].res.ok
           /\ returned[1].value # None
           /\ Len(returned[1].value[1]) = Len(content)
           /\ \A i \in DOMAIN content :
                 returned[1].value[1][i] =
                    IF content[i] < 128 THEN content[i] ELSE 65533

\* The buffer 'A', NUL, 'A' gives "A": what follows the first NUL is left out.
C17_Witness ==
    /\ CapabilitiesRead
    /\ wire[2].reply.buffer = << 65, 0, 65 >>
    /\ returned[1].value = Some(<< 65 >>)

\* C18: get_capabilities issues the length query first; if it fails the result
\* is UnsupportedOperation and the capability-string request is never issued;
\* otherwise the request is issued exactly once, with a buffer of exactly the
\* reported length and that same length, and its failure yields
\* UnsupportedOperation.
C18_CapabilitiesTwoPhases ==
    (op # None /\ op[1].fn = "get_capabilities") =>
        /\ Len(wire) \in { 1, 2 }
        /\ wire[1].fn = "GetCapabilitiesStringLength"
        /\ pc = "caps" => (Len(wire) = 1 /\ ReplyResult(wire[1]) # 0)
        /\ ReplyResult(wire[1]) = 0 =>
              /\ pc = "lib_ret"
              /\ Len(wire) = 1
              /\ returned[1].res =
                    Unsupported("GetCapabilitiesStringLength failed")
        /\ (pc = "lib_ret" /\ ReplyResult(wire[1]) # 0) =>
              /\ Len(wire) = 2
              /\ wire[2].fn = "CapabilitiesRequestAndCapabilitiesReply"
              /\ wire[2].handle = wire[1].handle
              /\ wire[2].args = << wire[1].reply.length, wire[1].reply.length >>
              /\ ReplyResult(wire[2]) = 0 =>
                    returned[1].res =
                       Unsupported("CapabilitiesRequestAndCapabilitiesReply failed")

\* The length query answered 3 and the request into the 3 bytes failed.
C18_Witness ==
    /\ LibReturned("get_capabilities")
    /\ Len(wire) = 2
    /\ wire[1].reply = [result |-> 1, length |-> 3]
    /\ wire[2].args = << 3, 3 >>
    /\ ReplyResult(wire[2]) = 0
    /\ returned[1].res.kind = "UnsupportedOperation"

\* The codes KNOWN_VCP_CODES has an entry for.
DocumentedCodes == { KNOWN_VCP_CODES[i].code : i \in DOMAIN KNOWN_VCP_CODES }

\* The manufacturer-specific codes, 0xE0 to 0xFF.
VendorReserved == 224 .. 255

\* C19: for every code of 0 .. 255, get_vcp_code_info(code) returns a
\* descriptor exactly if KNOWN_VCP_CODES documents the code, the descriptor is
\* an entry of the table and has the queried code, and the answer is the same
\* whatever was called before (it depends on the code alone).
C19_LookupFindsDocumented ==
    LibReturned("get_vcp_code_info") =>
        LET asked == op[1].args[1]
        IN /\ returned[1] # None <=> asked \in DocumentedCodes
           /\ returned[1] # None =>
                 /\ returned[1][1].code = asked
                 /\ \E i \in DOMAIN KNOWN_VCP_CODES :
                       returned[1][1] = KNOWN_VCP_CODES[i]
           /\ \A i \in DOMAIN KNOWN_VCP_CODES :
                 KNOWN_VCP_CODES[i].code = asked =>
                    returned[1] = Some(KNOWN_VCP_CODES[i])

\* The lookup of 0x10, which stands at another place of the table than its
\* code, and gives the entry of codes::BRIGHTNESS.
C19_Witness ==
    /\ LibReturned("get_vcp_code_info")
    /\ op[1].args = << 16 >>
    /\ KNOWN_VCP_CODES[17].code # 16
    /\ returned[1] # None
    /\ returned[1][1].code = 16

\* C20: vendor-reserved codes are absent from the catalog: get_vcp_code_info
\* returns None for every code of 0xE0 to 0xFF, as it does for every other
\* undocumented code.
C20_VendorReservedAbsent ==
    (LibReturned("get_vcp_code_info") /\ op[1].args[1] \in VendorReserved) =>
        returned[1] = None

\* The entries of KNOWN_VCP_CODES that have the code asked for.
EntriesFor(asked) ==
    { i \in DOMAIN KNOWN_VCP_CODES : KNOWN_VCP_CODES[i].code = asked }

\* C21: a code lookup is a single documented match or none: for every code of
\* 0 .. 255 at most one entry of KNOWN_VCP_CODES has the code, so the first
\* match that get_vcp_code_info returns is the only one and hides no other.
C21_LookupSingleMatch ==
    LibReturned("get_vcp_code_info") =>
        LET matching == EntriesFor(op[1].args[1])
        IN /\ Cardinality(matching) <= 1
           /\ matching = { } => returned[1] = None
           /\ \A i \in matching : returned[1] = Some(KNOWN_VCP_CODES[i])

\* The lookup of 0xFF: its one entry, the last of the table, is returned.
C21_Witness ==
    /\ LibReturned("get_vcp_code_info")
    /\ op[1].args = << 255 >>
    /\ EntriesFor(255) = { Len(KNOWN_VCP_CODES) }
    /\ returned[1] = Some(KNOWN_VCP_CODES[Len(KNOWN_VCP_CODES)])

-----------------------------------------------------------------------------
\* C24: when get_physical_monitors fails for some output, enumerate_monitors
\* returns that very error, the failed query is the last one made (no later
\* output is queried), and every PhysicalMonitor constructed before it has been
\* released exactly once by the time the error is with the caller, none being
\* left alive.
C24_QueryFailureAbortsAndReleases ==
    GpmFailed =>
        /\ \A i \in DOMAIN queried : ~ queried[i].ok => i = Len(queried)
        /\ pc \notin { "outer", "inner" }
        /\ pc = "enum_ret" => ret = Some(queried[Len(queried)].res)
        /\ Owners = << >>
        /\ \A h \in ConstructedHandles : released[h] = 1

\* The second output's query fails after both endpoints of the first were
\* constructed.
C24_Witness ==
    /\ pc = "enum_ret"
    /\ GpmFailed
    /\ Len(queried) = 2
    /\ Cardinality(ConstructedHandles) = 2
    /\ ret = Some(Err("UnsupportedOperation", None))

-----------------------------------------------------------------------------
\* C25: no native endpoint handle leaks: when the command has ended, every
\* handle that get_physical_monitors handed out during the enumeration has
\* been passed to destroy_physical_monitor, the handles of endpoints whose
\* PhysicalMonitor::new failed included.
C25_NoHandleLeak ==
    pc = "done" =>
        \A h \in 1 .. (nextHandle - 1) : released[h] >= 1

-----------------------------------------------------------------------------
\* C26: when find_monitor or get_primary_monitor has returned Ok, exactly one
\* of the handles the enumeration constructed is live, the one of the returned
\* PhysicalMonitor, and every other constructed handle has been released
\* exactly once; when it has returned Err, every constructed handle has been
\* released exactly once and nothing is live.
C26_SelectionLeavesOneLive ==
    (pc = "sel_ret" /\ call[1].fn \in { "find_monitor", "get_primary_monitor" })
        => IF ret[1].ok
           THEN /\ Len(mon) = 1
                /\ mon[1].handle \in ConstructedHandles
                /\ Owners = mon
                /\ \A h \in ConstructedHandles :
                      released[h] = IF h = mon[1].handle THEN 0 ELSE 1
           ELSE /\ Owners = << >>
                /\ \A h \in ConstructedHandles : released[h] = 1

\* Three monitors were constructed and the second one was returned: one was
\* released before it was found, one after.
C26_Witness ==
    /\ pc = "sel_ret"
    /\ ret[1].ok
    /\ Cardinality(ConstructedHandles) = 3
    /\ mon # None
    /\ mon[1].handle = 2
    /\ released = << 1, 0, 1 >>

-----------------------------------------------------------------------------
\* The transport call behind each success message of the commands.
SuccessCall ==
    [ m \in { "Brightness set to", "Contrast set to", "VCP code set to",
              "Monitor settings saved", "Monitor reset to factory defaults",
              "Monitor color settings reset to factory defaults" } |->
        CASE m = "Brightness set to"      -> "SetMonitorBrightness"
          [] m = "Contrast set to"        -> "SetMonitorContrast"
          [] m = "VCP code set to"        -> "SetVCPFeature"
          [] m = "Monitor settings saved" -> "SaveCurrentMonitorSettings"
          [] m = "Monitor reset to factory defaults"
                                          -> "RestoreMonitorFactoryDefaults"
          [] OTHER                        -> "RestoreMonitorFactoryColorDefaults" ]

\* get_monitor of the running command has returned an error.
GetMonitorFailed ==
    /\ call # None
    /\ call[1].fn # "enumerate_monitors"
    /\ pc \in { "sel_ret", "done" }
    /\ ret # None
    /\ ~ ret[1].ok

\* C27: in a command on one monitor, when get_monitor fails no transport call
\* is ever issued, nothing is printed and no handle is left live; and a
\* success message is printed only when the transport call it reports was
\* made and answered success.
C27_NoCallAfterFailedSelection ==
    /\ GetMonitorFailed =>
          /\ calls = << >>
          /\ printed = << >>
          /\ Owners = << >>
          /\ \A h \in ConstructedHandles : released[h] = 1
    /\ \A i \in DOMAIN printed :
          printed[i][1] \in DOMAIN SuccessCall =>
              \E j \in DOMAIN calls :
                 /\ calls[j].fn = SuccessCall[printed[i][1]]
                 /\ calls[j].result # 0

\* save_settings printed its message after the transport answered success.
C27_Witness ==
    /\ pc = "done"
    /\ cmd = "SaveSettings"
    /\ printed = << << "Monitor settings saved" >> >>
    /\ Len(calls) = 1
    /\ calls[1].result = 1

-----------------------------------------------------------------------------
\* A command on one monitor has called get_monitor(args.device, args.primary).
GetMonitorCalled == args # None /\ call # None

\* C28: get_monitor(device, primary) selects the primary monitor when primary
\* is true, whatever device is; find_monitor(device) when primary is false and
\* a device is given; the primary monitor when neither is given. A selection
\* makes exactly one enumeration of the monitors.
C28_GetMonitorPrecedence ==
    GetMonitorCalled =>
        /\ args[1].primary =>
              /\ call[1] = [fn |-> "get_primary_monitor", name |-> None]
              /\ (pc = "sel_ret" /\ ret[1].ok) => mon[1].is_primary
        /\ (~ args[1].primary /\ args[1].device # None) =>
              call[1] = [fn |-> "find_monitor", name |-> args[1].device[1]]
        /\ (~ args[1].primary /\ args[1].device = None) =>
              call[1] = [fn |-> "get_primary_monitor", name |-> None]
        /\ Len(reported) = IF pc = "enumerate" THEN 0 ELSE 1

\* --primary together with --device A: the monitor named A comes first in the
\* enumeration and is not primary; the second, which is primary and is not
\* named A, is the one returned.
C28_Witness ==
    /\ pc = "sel_ret"
    /\ args = Some([device |-> Some(<<"A">>), primary |-> TRUE])
    /\ ret[1].ok
    /\ Len(enumerated) >= 2
    /\ enumerated[1].monitor.friendly_name = <<"A">>
    /\ ~ enumerated[1].monitor.is_primary
    /\ mon = Some(enumerated[2].monitor)
    /\ mon[1].friendly_name # <<"A">>
    /\ Len(reported) = 1

-----------------------------------------------------------------------------
\* reset_defaults has run its body.
ResetDefaultsRan == cmd = "ResetDefaults" /\ pc \in { "return", "done" }

\* C29: reset_defaults issues exactly one restore call on the selected
\* handle: RestoreMonitorFactoryColorDefaults and never
\* RestoreMonitorFactoryDefaults when color_only is set,
\* RestoreMonitorFactoryDefaults and never the color one when it is not.
C29_ResetIssuesOneRestore ==
    ResetDefaultsRan =>
        /\ Len(calls) = 1
        /\ calls[1].fn = IF args[1].color_only
                         THEN "RestoreMonitorFactoryColorDefaults"
                         ELSE "RestoreMonitorFactoryDefaults"
        /\ calls[1].released = 0
        /\ pc = "return" => calls[1].handle = mon[1].handle

\* reset_defaults --color-only has restored the colour defaults and said so.
C29_Witness ==
    /\ ResetDefaultsRan
    /\ pc = "return"
    /\ args[1].color_only
    /\ calls[1].fn = "RestoreMonitorFactoryColorDefaults"
    /\ calls[1].result = 1
    /\ printed = << << "Monitor color settings reset to factory defaults" >> >>

-----------------------------------------------------------------------------
\* C30: get_capabilities never returns more than the transport reported: what
\* it decodes is a prefix of the buffer of at most the length reported in
\* phase 1 that holds no null byte; when phase 1 reports length 0 and phase 2
\* succeeds the result is the empty string.
C30_CapabilitiesWithinReportedLength ==
    CapabilitiesRead =>
        LET length  == wire[1].reply.length
            value   == returned[1].value[1]
            content == SubSeq(wire[2].reply.buffer, 1, Len(value))
        IN /\ returned[1].res.ok
           /\ Len(value) <= length
           /\ Len(content) = Len(value)
           /\ \A i \in DOMAIN content : content[i] # 0
           /\ value = from_utf8_lossy(content)
           /\ length = 0 => value = << >>

\* Phase 1 reports length 0 and phase 2 succeeds: the empty string.
C30_Witness ==
    /\ CapabilitiesRead
    /\ wire[1].reply.length = 0
    /\ returned[1].res.ok
    /\ returned[1].value = Some(<< >>)

-----------------------------------------------------------------------------
\* C23: two threads drive two different PhysicalMonitor/VcpMonitor objects.
\* Under every interleaving the handle field of each object stays the handle
\* it was constructed on; every transport call a thread makes carries that
\* handle and no other, so that a handle is only ever used by one thread and
\* a handle of neither object is never used; the answer a method works on is
\* the transport's latest answer for its own handle and its result is made of
\* that answer alone; and the value a monitor holds is the last one its own
\* thread set with success, whatever the other thread did.
C23_DistinctHandlesIndependent ==
    pc = "par" =>
        /\ \A t \in Threads :
              /\ objects[t].mon.handle = threads[t].bound
              /\ objects[t].vcp_mon.handle = threads[t].bound
              /\ \A h \in Handles :
                    t \in transport[h].callers => h = threads[t].bound
              /\ transport[threads[t].bound].value = threads[t].written
              /\ threads[t].pc \in { "called", "returned" } =>
                    threads[t].reply = transport[threads[t].bound].last
              /\ threads[t].pc = "returned" =>
                    threads[t].returned =
                       Some(par_result(threads[t].fn, threads[t].args,
                                       transport[threads[t].bound].last[1]))
        /\ \A h \in Handles :
              (\A t \in Threads : threads[t].bound # h) =>
                  transport[h] = [value |-> 0, callers |-> { }, last |-> None]

\* Thread 1 set its monitor to 10 and thread 2 set its own to 20; thread 2 is
\* between the transport's answer and its return when thread 1 reads back 10.
C23_Witness ==
    /\ pc = "par"
    /\ threads[1].written = 10
    /\ threads[2].fn = "set_vcp_feature"
    /\ threads[2].pc = "called"
    /\ threads[2].reply = Some(1)
    /\ threads[2].args = << 16, 20 >>
    /\ threads[1].pc = "returned"
    /\ threads[1].fn = "get_vcp_feature"
    /\ threads[1].returned[1].res.ok
    /\ threads[1].returned[1].response[1].current_value = 10

====
